---- MODULE Spec2Model ----
(***************************************************************************)
(* Model of the Apple Health export reports (health_last_walk.py,          *)
(* walks_total.py, walks_by_week.py).                                      *)
(*                                                                         *)
(* Number representation.  Python floats are modelled in fixed point:      *)
(*   - a distance (km, mi, m) x is the integer x * FP (FP = 10^7), so that *)
(*     the products and quotients of the unit conversions of numerals with *)
(*     two decimals are exact;                                             *)
(*   - a heart rate x bpm is the integer x * HRFP (one decimal);           *)
(*   - a datetime is the number of microseconds since day 0, 00:00:00, a   *)
(*     timedelta a number of microseconds (the resolution of Python's      *)
(*     datetime), and x.total_seconds() is that same number.               *)
(* A numeric attribute string is the record [k |-> "num", n |-> digits];   *)
(* a date attribute string is [k |-> "ok", date, sec, tz].                 *)
(***************************************************************************)
EXTENDS Integers, Sequences, FiniteSets, TLC

\* ------------------------------------------------------------------------
\* Bounds of the model
\* ------------------------------------------------------------------------
\* largest number of Record elements kept by one scan of collect_hr_and_dist
MaxSamples == 3

\* ------------------------------------------------------------------------
\* Fixed-point arithmetic
\* ------------------------------------------------------------------------
FP == 10000000
HRFP == 10
USEC == 1000000

Abs(x) == IF x < 0 THEN -x ELSE x

\* quotient and remainder of a*b by c (a, b >= 0, c > 0), computed bit by
\* bit so that no intermediate product leaves the 32-bit range
RECURSIVE MulDivQR(_, _, _)
MulDivQR(a, b, c) ==
    IF a = 0 THEN <<0, 0>>
    ELSE LET h == MulDivQR(a \div 2, b, c)
             s == 2 * h[2] + (a % 2) * b
         IN  <<2 * h[1] + (s \div c), s % c>>

\* a*b/c rounded to the nearest integer, ties to even (Python's round and
\* the microsecond rounding of datetime.timedelta)
MulDivRound(a, b, c) ==
    LET qr == MulDivQR(a, b, c)
        q  == qr[1]
        r  == qr[2]
    IN  IF 2 * r < c THEN q
        ELSE IF 2 * r > c THEN q + 1
        ELSE IF q % 2 = 0 THEN q ELSE q + 1

\* a*b/c rounded toward zero (a, b >= 0, c > 0)
MulDivFloor(a, b, c) == MulDivQR(a, b, c)[1]

\* int(x) of Python: truncation toward zero of x/c
TruncDiv(x, c) == IF x >= 0 THEN x \div c ELSE -((-x) \div c)

RECURSIVE SumSeq(_)
SumSeq(s) == IF s = <<>> THEN 0 ELSE Head(s) + SumSeq(Tail(s))

RECURSIVE MaxSeq(_)
MaxSeq(s) ==
    IF Len(s) = 1 THEN s[1]
    ELSE LET m == MaxSeq(Tail(s)) IN IF s[1] >= m THEN s[1] ELSE m

\* list.sort(key=lambda x: x[0]): stable insertion by the first component
RECURSIVE InsertByTime(_, _)
InsertByTime(sorted, x) ==
    IF sorted = <<>> THEN <<x>>
    ELSE IF sorted[Len(sorted)][1] <= x[1] THEN Append(sorted, x)
    ELSE Append(InsertByTime(SubSeq(sorted, 1, Len(sorted) - 1), x),
                sorted[Len(sorted)])

RECURSIVE SortByTime(_)
SortByTime(s) ==
    IF s = <<>> THEN <<>>
    ELSE InsertByTime(SortByTime(SubSeq(s, 1, Len(s) - 1)), s[Len(s)])

\* ------------------------------------------------------------------------
\* Attribute strings
\* ------------------------------------------------------------------------
NoneStr == <<"<None>">>
NBSP == "nbsp"
Str_AppleWatch == <<"A", "p", "p", "l", "e", NBSP, "W", "a", "t", "c", "h">>
Str_iPhone == <<"i", "P", "h", "o", "n", "e">>
Str_Wat == <<"W", "a", "t">>
Str_ch == <<"c", "h">>

NoNum == [k |-> "none", n |-> 0]
BadNum == [k |-> "bad", n |-> 0]
Num(n) == [k |-> "num", n |-> n]

NoDate == [k |-> "none", date |-> 0, sec |-> 0, tz |-> "None"]
BadDate == [k |-> "bad", date |-> 0, sec |-> 0, tz |-> "None"]
DateStr(d, s, tz) == [k |-> "ok", date |-> d, sec |-> s, tz |-> tz]

\* float(s) of a numeral with two decimals (a distance or an energy)
Float(v) == v.n * (FP \div 100)
\* float(s) of a heart-rate numeral with one decimal
FloatHr(v) == v.n * (HRFP \div 10)

\* a in b for strings
Contains(b, a) ==
    \E i \in 0..(Len(b) - Len(a)) : SubSeq(b, i + 1, i + Len(a)) = a

\* s.replace(" ", " ")
ReplaceNbsp(s) == [i \in 1..Len(s) |-> IF s[i] = NBSP THEN " " ELSE s[i]]

OrEmpty(s) == IF s = NoneStr THEN <<>> ELSE s

PRIMARY_DEVICE_MARK == <<"W", "a", "t", "c", "h">>

is_watch_source(elem) ==
    LET src == OrEmpty(elem.sourceName) \o <<" ">> \o OrEmpty(elem.device)
    IN  Contains(ReplaceNbsp(src), PRIMARY_DEVICE_MARK)

\* strptime(s[:19], "%Y-%m-%d %H:%M:%S"): the offset is cut off
parse_apple_datetime(s) == (s.date * 86400 + s.sec) * USEC

\* ------------------------------------------------------------------------
\* health_last_walk.py
\* ------------------------------------------------------------------------
ZONES == << <<"Zone 1", 0, 114>>,
            <<"Zone 2", 115, 134>>,
            <<"Zone 3", 135, 149>>,
            <<"Zone 4", 150, 169>>,
            <<"Zone 5", 170, 10000>> >>

ZoneNames == {ZONES[z][1] : z \in 1..Len(ZONES)}

EPS == FP \div 20
MI_KM_NUM == 160934
MI_KM_DEN == 100000

\* v * 1.60934
TimesMile(v) == MulDivRound(v, MI_KM_NUM, MI_KM_DEN)


NoneF == [some |-> FALSE, v |-> 0]
Some(x) == [some |-> TRUE, v |-> x]

NoStats == [active_kcal |-> NoneF, basal_kcal |-> NoneF, distance |-> NoneF,
            distance_unit |-> "None", elevation_m |-> NoneF, crash |-> FALSE]

\* float(child.get("sum", "0"))
FloatSum(child) == IF child.sum.k = "none" THEN 0 ELSE Float(child.sum)

\* the loop over the children of a Workout element (lines 65-83)
RECURSIVE ScanChildren(_, _)
ScanChildren(children, acc) ==
    IF children = <<>> \/ acc.crash THEN acc
    ELSE LET child == Head(children)
             next ==
               IF child.tag = "WorkoutStatistics" THEN
                 IF child.type \in {"HKQuantityTypeIdentifierActiveEnergyBurned",
                                    "HKQuantityTypeIdentifierBasalEnergyBurned",
                                    "HKQuantityTypeIdentifierDistanceWalkingRunning"}
                    /\ child.sum.k = "bad"
                 THEN [acc EXCEPT !.crash = TRUE]
                 ELSE IF child.type = "HKQuantityTypeIdentifierActiveEnergyBurned"
                 THEN [acc EXCEPT !.active_kcal = Some(FloatSum(child))]
                 ELSE IF child.type = "HKQuantityTypeIdentifierBasalEnergyBurned"
                 THEN [acc EXCEPT !.basal_kcal = Some(FloatSum(child))]
                 ELSE IF child.type = "HKQuantityTypeIdentifierDistanceWalkingRunning"
                 THEN [acc EXCEPT !.distance = Some(FloatSum(child)),
                                  !.distance_unit = child.unit]
                 ELSE acc
               ELSE IF child.tag = "MetadataEntry" /\ child.key = "HKElevationAscended"
               THEN IF child.value.k = "bad"
                    THEN [acc EXCEPT !.elevation_m = NoneF]
                    ELSE [acc EXCEPT !.elevation_m =
                            Some(IF child.value.k = "none" THEN 0
                                 ELSE Float(child.value) \div 100)]
               ELSE acc
         IN  ScanChildren(Tail(children), next)

NoBest == [set |-> FALSE, start |-> 0, end |-> 0, duration_min |-> 0,
           active_kcal |-> NoneF, basal_kcal |-> NoneF, distance |-> NoneF,
           distance_unit |-> "None", elevation_m |-> NoneF, distance_km |-> 0]

\* "Normalise the distance to km" of find_last_walking_workout (lines 107-112)
WorkoutDistanceKm(distance, unit) ==
    LET dist == IF distance.some THEN distance.v ELSE 0
    IN  IF unit = "mi" THEN TimesMile(dist) ELSE dist

\* the per-sample conversion of collect_hr_and_dist (lines 153-157)
SampleDistanceKm(v, unit) == IF unit = "mi" THEN TimesMile(v) ELSE v

\* the zone of a heart rate: the first band with lo <= hr <= hi, 0 if none
\* lo <= hr <= hi for the band z of ZONES (line 208)
InBand(z, hr) == ZONES[z][2] * HRFP <= hr /\ hr <= ZONES[z][3] * HRFP

RECURSIVE FirstZone(_, _)
FirstZone(hr, z) ==
    IF z > Len(ZONES) THEN 0
    ELSE IF InBand(z, hr) THEN z
    ELSE FirstZone(hr, z + 1)

\* the accumulation loop of compute_zones (lines 201-210)
RECURSIVE ZoneSeconds(_, _, _)
ZoneSeconds(samples, i, acc) ==
    IF i > Len(samples) - 1 THEN acc
    ELSE LET hr == samples[i][2]
             dt_sec == samples[i + 1][1] - samples[i][1]
             z == FirstZone(hr, 1)
         IN  ZoneSeconds(samples, i + 1,
                 IF z = 0 THEN acc
                 ELSE [acc EXCEPT ![ZONES[z][1]] = @ + dt_sec])

\* the formatting loop of compute_zones (lines 212-217): <<minutes, seconds>>
ZoneStr(zone_seconds) ==
    [name \in ZoneNames |->
        LET secs == TruncDiv(zone_seconds[name], USEC)
        IN  <<secs \div 60, secs % 60>>]

compute_zones(samples) ==
    ZoneStr(ZoneSeconds(samples, 1, [name \in ZoneNames |-> 0]))

\* DetectMode with the tie given to "cumulative" (< for <=)
DetectMode_StrictTie(vals, total_dist_km) ==
    IF Abs(SumSeq(vals) - total_dist_km) < Abs(MaxSeq(vals) - total_dist_km)
    THEN "delta" ELSE "cumulative"

\* the distance encoding chosen by collect_hr_and_dist (lines 174-181)
DetectMode(vals, total_dist_km) ==
    LET max_val == MaxSeq(vals)
        sum_val == SumSeq(vals)
        diff_if_delta == Abs(sum_val - total_dist_km)
        diff_if_cum == Abs(max_val - total_dist_km)
    IN  IF diff_if_delta <= diff_if_cum THEN "delta" ELSE "cumulative"

\* the running sum of the delta branch (lines 185-188)
RECURSIVE RunningSum(_, _)
RunningSum(raw, cum) ==
    IF raw = <<>> THEN <<>>
    ELSE <<<<raw[1][1], cum + raw[1][2]>>>> \o RunningSum(Tail(raw), cum + raw[1][2])

BuildDistSamples(raw, mode) ==
    IF mode = "delta" THEN RunningSum(raw, 0) ELSE raw

\* the targets of compute_splits (lines 262-272)
SplitBounds(total_dist_km) ==
    LET num_full == TruncDiv(total_dist_km + EPS, FP)
        full == [k \in 1..num_full |-> k * FP]
        leftover == total_dist_km - num_full * FP
    IN  IF leftover > EPS THEN Append(full, total_dist_km) ELSE full

\* Advance that also skips a sample that is exactly at the target (<= for <)
RECURSIVE Advance_SkipEqual(_, _, _, _, _)
Advance_SkipEqual(dists, target, ix, pt, pd) ==
    IF ix < Len(dists) /\ dists[ix + 1][2] <= target
    THEN Advance_SkipEqual(dists, target, ix + 1, dists[ix + 1][1],
                           dists[ix + 1][2])
    ELSE <<ix, pt, pd>>

\* Advance that forgets to move prev_t and prev_dist with the scan
RECURSIVE Advance_KeepPrev(_, _, _, _, _)
Advance_KeepPrev(dists, target, ix, pt, pd) ==
    IF ix < Len(dists) /\ dists[ix + 1][2] < target
    THEN Advance_KeepPrev(dists, target, ix + 1, pt, pd)
    ELSE <<ix, pt, pd>>

\* the inner while loop of compute_splits (lines 290-293): the scan position
\* <<idx, prev_t, prev_dist>> after skipping the samples below the target
RECURSIVE Advance(_, _, _, _, _)
Advance(dists, target, ix, pt, pd) ==
    IF ix < Len(dists) /\ dists[ix + 1][2] < target
    THEN Advance(dists, target, ix + 1, dists[ix + 1][1], dists[ix + 1][2])
    ELSE <<ix, pt, pd>>

\* Interpolate that adds the interpolated part to cur_t instead of prev_t
Interpolate_FromCur(target, pt, pd, cur_t, cur_dist) ==
    IF cur_dist = pd THEN cur_t
    ELSE cur_t + MulDivRound(cur_t - pt, target - pd, cur_dist - pd)

\* the interpolation of compute_splits (lines 301-306)
Interpolate(target, pt, pd, cur_t, cur_dist) ==
    IF cur_dist = pd THEN cur_t
    ELSE pt + MulDivRound(cur_t - pt, target - pd, cur_dist - pd)

\* HrVals with the end of the window excluded (t < t_end_split)
RECURSIVE HrVals_OpenEnd(_, _, _)
HrVals_OpenEnd(samples, lo, hi) ==
    IF samples = <<>> THEN <<>>
    ELSE (IF lo <= samples[1][1] /\ samples[1][1] < hi
          THEN <<samples[1][2]>> ELSE <<>>) \o HrVals_OpenEnd(Tail(samples), lo, hi)

\* the heart rates of a split (line 318)
RECURSIVE HrVals(_, _, _)
HrVals(samples, lo, hi) ==
    IF samples = <<>> THEN <<>>
    ELSE (IF lo <= samples[1][1] /\ samples[1][1] <= hi
          THEN <<samples[1][2]>> ELSE <<>>) \o HrVals(Tail(samples), lo, hi)

\* int(round(sum(hr_vals) / len(hr_vals))) if hr_vals else 0 (line 319)
AvgHr(hr_vals) ==
    IF hr_vals = <<>> THEN 0
    ELSE MulDivRound(SumSeq(hr_vals), 1, Len(hr_vals) * HRFP)

\* ------------------------------------------------------------------------
\* State
\* ------------------------------------------------------------------------
VARIABLES
    pc,                \* position of main() of health_last_walk.py
    last_start,        \* find_last_walking_workout: latest start seen, -1 = None
    best,              \* find_last_walking_workout: the workout kept
    hr_samples,        \* collect_hr_and_dist: <<time, bpm>>
    dist_samples_raw,  \* collect_hr_and_dist: <<time, km>> as read
    dist_samples,      \* the cumulative distance series handed to compute_splits
    mode,              \* "delta", "cumulative" or "" before the detection
    zones,             \* result of compute_zones: name -> <<minutes, seconds>>
    bounds,            \* compute_splits: the target distances
    i,                 \* compute_splits: index of the next target
    idx,               \* compute_splits: scan position in the distance series
    prev_t,            \* compute_splits: time of the sample before idx
    prev_dist,         \* compute_splits: distance of the sample before idx
    splits,            \* compute_splits: the splits built so far
    err,               \* the exception that ended main(), "" while none
    lw_workouts,       \* the Workout elements find_last_walking_workout has met
    lw_elem,           \* the Record element collect_hr_and_dist holds
    lw_written         \* number of times full_last_walk.xlsx was written

lwVars == <<pc, last_start, best, hr_samples, dist_samples_raw, dist_samples,
            mode, zones, bounds, i, idx, prev_t, prev_dist, splits, err,
            lw_workouts, lw_elem, lw_written>>

VARIABLES
    wt_pc,             \* position of main() of walks_total.py
    wt_elem,           \* the element the running scan of walks_total.py holds
    rows_daily,        \* parse_daily_walking: rows <<date, distance_km>>
    df_daily_dist,     \* result of parse_daily_walking: one row per date
    rows_workouts,     \* parse_workouts: rows <<date, distance_workouts_km>>
    df_workouts,       \* result of parse_workouts: one row per date
    daily_table        \* result of build_daily_walk_table

wtVars == <<wt_pc, wt_elem, rows_daily, df_daily_dist, rows_workouts,
            df_workouts, daily_table>>

VARIABLES
    export_exists      \* export.xml is in the working directory

VARIABLES
    wv_pc,             \* position of main() of extract_weight_and_vo2.py
    weight_rows,       \* parse_export: rows <<date, weight_kg>>
    vo2_rows,          \* parse_export: rows <<date, vo2max>>
    wv_daily,          \* the frame of aggregate_daily and add_metrics
    wv_final,          \* save_excel: the sheet written
    wv_written,        \* number of times the weight report was written
    wv_err             \* the exception that ended main(), "" while none

wvVars == <<wv_pc, weight_rows, vo2_rows, wv_daily, wv_final, wv_written, wv_err>>

VARIABLES
    vx_pc,             \* position of main() of extract_vo2max.py
    vx_rows,           \* extract_vo2_since_cutoff: rows <<d, vo2>>
    vx_daily,          \* main: the frame "daily", one row per date
    vx_written,        \* number of times vo2max_history_daily.xlsx was saved
    vx_err             \* the exception that ended main(), "" while none

vxVars == <<vx_pc, vx_rows, vx_daily, vx_written, vx_err>>

VARIABLES
    wk_pc,             \* position of main() of walks_by_week.py
    wk_rows,           \* parse_workouts: the rows appended
    wk_weekly,         \* the frame of aggregate_weekly
    wk_sheet,          \* the frame of format_weekly, as written
    wk_written         \* number of times the weekly summary was written

wkVars == <<wk_pc, wk_rows, wk_weekly, wk_sheet, wk_written>>

VARIABLES
    wd_pc,             \* position of main() of weekly_from_daily.py
    wd_df,             \* the rows of the sheet Daily_walk after the filter
    wd_weekly,         \* the weekly frame
    wd_written         \* number of times weekly_from_daily_walk.xlsx was written

wdVars == <<wd_pc, wd_df, wd_weekly, wd_written>>

VARIABLES
    dr_pc,             \* position of main() of all_reports_run.py
    dr_next,           \* index into SCRIPTS of the script to run next
    dr_scripts,        \* the indices of the scripts present in the root
    dr_run,            \* the number of this run of the driver
    dr_now,            \* the minute of the clock the jobs stamp names with
    root_files,        \* the .xlsx files of the project root
    reports_files,     \* the .xlsx files of reports/
    before,            \* main: the names of the .xlsx of the root before the run
    produced,          \* the files the jobs of this run wrote
    dr_started         \* the scripts this run has started, in order

drVars == <<dr_pc, dr_next, dr_scripts, dr_run, dr_now, root_files,
            reports_files, before, produced, dr_started>>

vars == <<lwVars, wtVars, export_exists, wvVars, vxVars, wkVars, wdVars, drVars>>

\* what the actions of one job leave alone
lwOthers == <<wtVars, export_exists, wvVars, vxVars, wkVars, wdVars, drVars>>
wtOthers == <<lwVars, export_exists, wvVars, vxVars, wkVars, wdVars, drVars>>
wvOthers == <<lwVars, wtVars, export_exists, vxVars, wkVars, wdVars, drVars>>
vxOthers == <<lwVars, wtVars, export_exists, wvVars, wkVars, wdVars, drVars>>
wkOthers == <<lwVars, wtVars, export_exists, wvVars, vxVars, wdVars, drVars>>
wdOthers == <<lwVars, wtVars, export_exists, wvVars, vxVars, wkVars, drVars>>
drOthers == <<lwVars, wtVars, export_exists, wvVars, vxVars, wkVars, wdVars>>

\* the jobs that are not running
WvIdle ==
    /\ wv_pc = "idle" /\ weight_rows = <<>> /\ vo2_rows = <<>>
    /\ wv_daily = <<>> /\ wv_final = <<>> /\ wv_written = 0 /\ wv_err = ""

VxIdle ==
    /\ vx_pc = "idle" /\ vx_rows = <<>> /\ vx_daily = <<>>
    /\ vx_written = 0 /\ vx_err = ""

WkIdle ==
    /\ wk_pc = "idle" /\ wk_rows = <<>> /\ wk_weekly = <<>>
    /\ wk_sheet = <<>> /\ wk_written = 0

WdIdle ==
    /\ wd_pc = "idle" /\ wd_df = <<>> /\ wd_weekly = <<>> /\ wd_written = 0

DrIdle ==
    /\ dr_pc = "idle" /\ dr_next = 0 /\ dr_scripts = {} /\ dr_run = 0
    /\ dr_now = 0 /\ root_files = {} /\ reports_files = {}
    /\ before = {} /\ produced = {} /\ dr_started = <<>>

\* no job but the ones named by an initial condition runs
OtherJobsIdle == WkIdle /\ WdIdle /\ DrIdle

NoZones == [name \in ZoneNames |-> <<0, 0>>]

\* no Record element is held
NoRecord ==
    [sourceName |-> NoneStr, device |-> NoneStr, type |-> "None",
     startDate |-> NoDate, endDate |-> NoDate, value |-> NoNum, unit |-> "None"]

\* the exception of float(None) or None[:19], and of float("abc") or
\* strptime("abc", ...)
ParseError(v) == IF v.k = "none" THEN "TypeError" ELSE "ValueError"

\* largest number of Workout elements one document holds
MaxWorkouts == 2

LwInit ==
    /\ pc = "find"
    /\ last_start = -1
    /\ best = NoBest
    /\ hr_samples = <<>>
    /\ dist_samples_raw = <<>>
    /\ dist_samples = <<>>
    /\ mode = ""
    /\ zones = NoZones
    /\ bounds = <<>>
    /\ i = 0
    /\ idx = 0
    /\ prev_t = 0
    /\ prev_dist = 0
    /\ splits = <<>>
    /\ err = ""
    /\ lw_workouts = <<>>
    /\ lw_elem = NoRecord
    /\ lw_written = 0

\* ------------------------------------------------------------------------
\* find_last_walking_workout
\* ------------------------------------------------------------------------
\* a start that also replaces an equal one
IsLater_OrEqual(start, last) == last = -1 \/ start >= last

\* "last_start is None or start > last_start" (line 54)
IsLater(start, last) == last = -1 \/ start > last

\* one iteration of the loop over the Workout elements (lines 48-96)
ReadWorkout(elem) ==
    /\ pc = "find"
    /\ UNCHANGED lwOthers
    /\ export_exists
    /\ Len(lw_workouts) < MaxWorkouts
    /\ lw_workouts' = Append(lw_workouts, elem)
    /\ UNCHANGED <<lw_elem, lw_written>>
    /\ IF elem.workoutActivityType # "HKWorkoutActivityTypeWalking"
       THEN UNCHANGED <<pc, last_start, best, hr_samples, dist_samples_raw,
                        dist_samples, mode, zones, bounds, i, idx, prev_t,
                        prev_dist, splits, err>>
       ELSE IF elem.startDate.k # "ok" \/ elem.endDate.k # "ok"
       THEN /\ pc' = "error"
            /\ err' = IF elem.startDate.k # "ok" THEN ParseError(elem.startDate)
                      ELSE ParseError(elem.endDate)
            /\ UNCHANGED <<last_start, best, hr_samples, dist_samples_raw,
                           dist_samples, mode, zones, bounds, i, idx, prev_t,
                           prev_dist, splits>>
       ELSE LET start == parse_apple_datetime(elem.startDate)
                end == parse_apple_datetime(elem.endDate)
                st == ScanChildren(elem.children, NoStats)
            IN  IF IsLater(start, last_start)
                THEN IF elem.duration.k = "bad" \/ st.crash
                     THEN /\ pc' = "error"
                          /\ err' = "ValueError"
                          /\ last_start' = start
                          /\ UNCHANGED <<best, hr_samples, dist_samples_raw,
                                         dist_samples, mode, zones, bounds, i,
                                         idx, prev_t, prev_dist, splits>>
                     ELSE /\ last_start' = start
                          /\ best' = [set |-> TRUE, start |-> start, end |-> end,
                                      duration_min |->
                                          IF elem.duration.k = "none" THEN 0
                                          ELSE Float(elem.duration),
                                      active_kcal |-> st.active_kcal,
                                      basal_kcal |-> st.basal_kcal,
                                      distance |-> st.distance,
                                      distance_unit |-> st.distance_unit,
                                      elevation_m |-> st.elevation_m,
                                      distance_km |-> 0]
                          /\ UNCHANGED <<pc, hr_samples, dist_samples_raw,
                                         dist_samples, mode, zones, bounds, i,
                                         idx, prev_t, prev_dist, splits, err>>
                ELSE UNCHANGED <<pc, last_start, best, hr_samples,
                                 dist_samples_raw, dist_samples, mode, zones,
                                 bounds, i, idx, prev_t, prev_dist, splits, err>>

\* iterparse finds no export.xml: the first step of the loop raises (line 47)
NoExport ==
    /\ pc = "find"
    /\ UNCHANGED lwOthers
    /\ ~export_exists
    /\ pc' = "error"
    /\ err' = "OSError"
    /\ UNCHANGED <<last_start, best, hr_samples, dist_samples_raw, dist_samples,
                   mode, zones, bounds, i, idx, prev_t, prev_dist, splits,
                   lw_workouts, lw_elem, lw_written>>

\* the end of find_last_walking_workout (lines 99-114)
FinishFind ==
    /\ pc = "find"
    /\ UNCHANGED lwOthers
    /\ export_exists
    /\ lw_workouts' = <<>>
    /\ UNCHANGED <<lw_elem, lw_written>>
    /\ IF ~best.set
       THEN /\ pc' = "error"
            /\ err' = "NoWalkingWorkout"
            /\ best' = best
       ELSE /\ pc' = "collect"
            /\ err' = err
            /\ best' = [best EXCEPT
                 !.basal_kcal = IF @.some THEN @ ELSE Some(0),
                 !.active_kcal = IF @.some THEN @ ELSE Some(0),
                 !.distance_km = WorkoutDistanceKm(best.distance, best.distance_unit)]
    /\ UNCHANGED <<last_start, hr_samples, dist_samples_raw, dist_samples, mode,
                   zones, bounds, i, idx, prev_t, prev_dist, splits>>

\* ------------------------------------------------------------------------
\* collect_hr_and_dist
\* ------------------------------------------------------------------------
DistRecordTypes == {"HKQuantityTypeIdentifierDistanceWalkingRunning",
                    "HKQuantityTypeIdentifierDistanceWalking"}

\* one iteration of the loop over the Record elements (lines 130-160);
\* held is what lw_elem shows of the element afterwards
ReadRecordAs(elem, held) ==
    /\ pc = "collect"
    /\ UNCHANGED lwOthers
    /\ Len(hr_samples) + Len(dist_samples_raw) < MaxSamples
    /\ lw_elem' = held
    /\ UNCHANGED <<lw_workouts, lw_written>>
    /\ IF ~is_watch_source(elem)
       THEN UNCHANGED <<pc, err, hr_samples, dist_samples_raw>>
       ELSE IF elem.startDate.k # "ok" \/ elem.endDate.k # "ok"
       THEN /\ pc' = "error"
            /\ err' = IF elem.startDate.k # "ok" THEN ParseError(elem.startDate)
                      ELSE ParseError(elem.endDate)
            /\ UNCHANGED <<hr_samples, dist_samples_raw>>
       ELSE LET s == parse_apple_datetime(elem.startDate)
                e == parse_apple_datetime(elem.endDate)
            IN  IF e <= best.start \/ s >= best.end
                THEN UNCHANGED <<pc, err, hr_samples, dist_samples_raw>>
                ELSE IF elem.type = "HKQuantityTypeIdentifierHeartRate"
                THEN IF elem.value.k # "num"
                     THEN /\ pc' = "error"
                          /\ err' = ParseError(elem.value)
                          /\ UNCHANGED <<hr_samples, dist_samples_raw>>
                     ELSE /\ hr_samples' = Append(hr_samples, <<s, FloatHr(elem.value)>>)
                          /\ UNCHANGED <<pc, err, dist_samples_raw>>
                ELSE IF elem.type \in DistRecordTypes
                THEN IF elem.value.k # "num"
                     THEN /\ pc' = "error"
                          /\ err' = ParseError(elem.value)
                          /\ UNCHANGED <<hr_samples, dist_samples_raw>>
                     ELSE /\ dist_samples_raw' =
                               Append(dist_samples_raw,
                                      <<e, SampleDistanceKm(Float(elem.value), elem.unit)>>)
                          /\ UNCHANGED <<pc, err, hr_samples>>
                ELSE UNCHANGED <<pc, err, hr_samples, dist_samples_raw>>
    /\ UNCHANGED <<last_start, best, dist_samples, mode, zones, bounds, i, idx,
                   prev_t, prev_dist, splits>>

\* the iteration with the element left unobserved
ReadRecord(elem) == ReadRecordAs(elem, NoRecord)

\* the iteration with the element on show in lw_elem
ScanRecord(elem) == ReadRecordAs(elem, elem)

\* "not samples" of a list that counts a single sample for none
IsEmpty_OrSingle(samples) == Len(samples) <= 1

\* "not samples" of a list (lines 163 and 170)
IsEmpty(samples) == samples = <<>>

\* the end of collect_hr_and_dist (lines 163-192)
FinishCollect ==
    /\ pc = "collect"
    /\ UNCHANGED lwOthers
    /\ lw_elem' = NoRecord
    /\ UNCHANGED <<lw_workouts, lw_written>>
    /\ IF IsEmpty(hr_samples)
       THEN /\ pc' = "error"
            /\ err' = "NoHeartRate"
            /\ UNCHANGED <<hr_samples, dist_samples_raw, dist_samples, mode>>
       ELSE LET raw == SortByTime(dist_samples_raw)
            IN  /\ pc' = "zones"
                /\ err' = err
                /\ hr_samples' = SortByTime(hr_samples)
                /\ dist_samples_raw' = raw
                /\ IF IsEmpty(raw)
                   THEN /\ dist_samples' = <<>>
                        /\ mode' = mode
                   ELSE LET vals == [k \in 1..Len(raw) |-> raw[k][2]]
                            m == DetectMode(vals, best.distance_km)
                        IN  /\ mode' = m
                            /\ dist_samples' = BuildDistSamples(raw, m)
    /\ UNCHANGED <<last_start, best, zones, bounds, i, idx, prev_t, prev_dist,
                   splits>>

\* ------------------------------------------------------------------------
\* compute_zones and compute_splits
\* ------------------------------------------------------------------------
ComputeZones ==
    /\ pc = "zones"
    /\ UNCHANGED lwOthers
    /\ UNCHANGED <<err, lw_workouts, lw_elem, lw_written>>
    /\ zones' = compute_zones(hr_samples)
    /\ pc' = "splits"
    /\ UNCHANGED <<last_start, best, hr_samples, dist_samples_raw, dist_samples,
                   mode, bounds, i, idx, prev_t, prev_dist, splits>>

\* the prologue of compute_splits (lines 259-286)
BeginSplits ==
    /\ pc = "splits"
    /\ UNCHANGED lwOthers
    /\ UNCHANGED <<err, lw_workouts, lw_elem, lw_written>>
    /\ i = 0
    /\ LET b == IF dist_samples = <<>> THEN <<>> ELSE SplitBounds(best.distance_km)
       IN  /\ bounds' = b
           /\ IF b = <<>>
              THEN /\ pc' = "write"
                   /\ UNCHANGED <<i, prev_t>>
              ELSE /\ pc' = pc
                   /\ i' = 1
                   /\ prev_t' = best.start
    /\ idx' = 0
    /\ prev_dist' = 0
    /\ splits' = <<>>
    /\ UNCHANGED <<last_start, best, hr_samples, dist_samples_raw, dist_samples,
                   mode, zones>>

\* one iteration of the loop over the targets (lines 288-329), and the exit
\* of the loop (lines 331-334)
SplitStep ==
    /\ pc = "splits"
    /\ UNCHANGED lwOthers
    /\ UNCHANGED <<err, lw_workouts, lw_elem, lw_written>>
    /\ i >= 1
    /\ IF i > Len(bounds)
       THEN /\ pc' = "write"
            /\ UNCHANGED <<i, idx, prev_t, prev_dist, splits>>
       ELSE LET target == bounds[i]
                pos == Advance(dist_samples, target, idx, prev_t, prev_dist)
            IN  /\ idx' = pos[1]
                /\ prev_t' = pos[2]
                /\ prev_dist' = pos[3]
                /\ IF pos[1] = Len(dist_samples)
                   THEN /\ pc' = "write"
                        /\ UNCHANGED <<i, splits>>
                   ELSE LET cur_t == dist_samples[pos[1] + 1][1]
                            cur_dist == dist_samples[pos[1] + 1][2]
                            t_target == Interpolate(target, pos[2], pos[3],
                                                    cur_t, cur_dist)
                            t_start_split ==
                                IF splits # <<>> THEN splits[Len(splits)].t_end
                                ELSE best.start
                            sec == TruncDiv(t_target - t_start_split, USEC)
                            hr_vals == HrVals(hr_samples, t_start_split, t_target)
                        IN  /\ splits' = Append(splits,
                                   [KM |-> i,
                                    Time |-> <<((t_target \div USEC) \div 3600) % 24,
                                               ((t_target \div USEC) \div 60) % 60>>,
                                    Pace |-> <<sec \div 60, sec % 60>>,
                                    HeartRate |-> AvgHr(hr_vals),
                                    t_end |-> t_target])
                            /\ i' = i + 1
                            /\ pc' = pc
    /\ UNCHANGED <<last_start, best, hr_samples, dist_samples_raw, dist_samples,
                   mode, zones, bounds>>

\* the report is written (lines 361-402)
WriteReport ==
    /\ pc = "write"
    /\ UNCHANGED lwOthers
    /\ UNCHANGED <<err, lw_workouts, lw_elem>>
    /\ lw_written' = lw_written + 1
    /\ pc' = "done"
    /\ UNCHANGED <<last_start, best, hr_samples, dist_samples_raw, dist_samples,
                   mode, zones, bounds, i, idx, prev_t, prev_dist, splits>>

\* ------------------------------------------------------------------------
\* walks_total.py
\* ------------------------------------------------------------------------
\* largest number of rows one scan of walks_total.py collects
MaxRows == 2

DISTANCE_TYPES == {"HKQuantityTypeIdentifierDistanceWalkingRunning",
                   "HKQuantityTypeIdentifierDistanceWalking",
                   "HKQuantityTypeIdentifierDistanceHiking"}

WORKOUT_TYPES == {"HKWorkoutActivityTypeWalking"}

wt_PRIMARY_DEVICE_MARK == <<"W", "a", "t", "c", "h">>

\* dt.date(2025, 8, 1) as a proleptic Gregorian ordinal
CUTOFF_DATE == 739464

\* parse_dt: the datetime of the first 19 characters, the offset is cut off
parse_dt(s) == [date |-> s.date, sec |-> s.sec]

distance_value_to_km(value, unit) ==
    IF unit \in {"m", "meter", "meters"} THEN value \div 1000
    ELSE IF unit \in {"km", "kilometer", "kilometers", "None"} THEN value
    ELSE IF unit \in {"mi", "mile", "miles"} THEN TimesMile(value)
    ELSE value

wt_is_watch_source(elem) ==
    LET a == IF elem.sourceName = NoneStr THEN <<>> ELSE elem.sourceName
        b == IF elem.device = NoneStr THEN <<>> ELSE elem.device
        src == a \o <<" ">> \o b
        norm == [k \in 1..Len(src) |-> IF src[k] = NBSP THEN " " ELSE src[k]]
    IN  \E k \in 1..(Len(norm) - Len(wt_PRIMARY_DEVICE_MARK) + 1) :
            SubSeq(norm, k, k + Len(wt_PRIMARY_DEVICE_MARK) - 1)
                = wt_PRIMARY_DEVICE_MARK

\* the cutoff test with the cutoff day itself dropped (<= for <)
BeforeCutoff_Inclusive(date) == date <= CUTOFF_DATE

\* date < CUTOFF_DATE (lines 83 and 170)
BeforeCutoff(date) == date < CUTOFF_DATE

\* "not value_str": the attribute is missing or the empty string
Falsy(v) == v.k \in {"none", "empty"}

EmptyNum == [k |-> "empty", n |-> 0]

NoElem == [tag |-> "None", type |-> "None", workoutActivityType |-> "None",
           sourceName |-> NoneStr, device |-> NoneStr, startDate |-> NoDate,
           value |-> NoNum, unit |-> "None", totalDistance |-> NoNum,
           totalDistanceUnit |-> "None", children |-> <<>>]

\* the row parse_daily_walking appends for a Record element, <<>> if the
\* element is skipped (lines 140-176)
DailyRow(elem) ==
    IF elem.type \notin DISTANCE_TYPES THEN <<>>
    ELSE IF ~wt_is_watch_source(elem) THEN <<>>
    ELSE IF Falsy(elem.value) \/ elem.startDate.k = "none" THEN <<>>
    ELSE IF elem.value.k # "num" THEN <<>>
    ELSE IF elem.startDate.k # "ok" THEN <<>>
    ELSE LET date == parse_dt(elem.startDate).date
         IN  IF BeforeCutoff(date) THEN <<>>
             ELSE <<date, distance_value_to_km(Float(elem.value), elem.unit)>>

\* the loop over WorkoutStatistics of parse_workouts (lines 99-109):
\* <<found, dist, unit>>
RECURSIVE StatDistance(_)
StatDistance(children) ==
    IF children = <<>> THEN <<FALSE, 0, "None">>
    ELSE LET ws == Head(children)
         IN  IF /\ ws.tag = "WorkoutStatistics"
                /\ ws.type \in DISTANCE_TYPES
                /\ ws.sum.k = "num"
             THEN <<TRUE, Float(ws.sum), ws.unit>>
             ELSE StatDistance(Tail(children))

\* the distance of a Workout element in km (lines 88-114)
WorkoutRowKm(elem) ==
    LET has_total == ~Falsy(elem.totalDistance) /\ elem.totalDistance.k = "num"
        st == StatDistance(elem.children)
    IN  IF has_total
        THEN distance_value_to_km(Float(elem.totalDistance), elem.totalDistanceUnit)
        ELSE IF st[1] THEN distance_value_to_km(st[2], st[3])
        ELSE 0

\* the row parse_workouts appends for a Workout element, <<>> if the element
\* is skipped (lines 62-116)
WorkoutRow(elem) ==
    IF elem.workoutActivityType \notin WORKOUT_TYPES THEN <<>>
    ELSE IF ~wt_is_watch_source(elem) THEN <<>>
    ELSE IF elem.startDate.k = "none" THEN <<>>
    ELSE IF elem.startDate.k # "ok" THEN <<>>
    ELSE LET date == parse_dt(elem.startDate).date
         IN  IF BeforeCutoff(date) THEN <<>>
             ELSE <<date, WorkoutRowKm(elem)>>

\* df.groupby("date", as_index=False)[column].sum(): one row per date, in
\* ascending date order
RECURSIVE GroupSumFrom(_, _)
GroupSumFrom(rows, dates) ==
    IF dates = {} THEN <<>>
    ELSE LET d == CHOOSE x \in dates : \A y \in dates : x <= y
             sel == SelectSeq(rows, LAMBDA r : r[1] = d)
         IN  <<<<d, SumSeq([k \in 1..Len(sel) |-> sel[k][2]])>>>>
             \o GroupSumFrom(rows, dates \ {d})

GroupSum(rows) == GroupSumFrom(rows, {rows[k][1] : k \in 1..Len(rows)})

\* Series.round(2)
Round2(x) ==
    IF x >= 0 THEN MulDivRound(x, 1, FP \div 100) * (FP \div 100)
    ELSE -(MulDivRound(-x, 1, FP \div 100) * (FP \div 100))

\* d.strftime("%m/%d/%Y") of a date given by its ordinal: <<month, day, year>>
StrfMDY(ordinal) ==
    LET z == ordinal + 305
        era == z \div 146097
        doe == z - era * 146097
        yoe == (doe - doe \div 1460 + doe \div 36524 - doe \div 146096) \div 365
        doy == doe - (365 * yoe + yoe \div 4 - yoe \div 100)
        mp == (5 * doy + 2) \div 153
        d == doy - (153 * mp + 2) \div 5 + 1
        m == IF mp < 10 THEN mp + 3 ELSE mp - 9
        y == yoe + era * 400 + (IF m <= 2 THEN 1 ELSE 0)
    IN  <<m, d, y>>

\* rows sorted by date, latest first (sort_values("date", ascending=False));
\* the dates of the rows are pairwise different
RECURSIVE SortDateDesc(_)
SortDateDesc(rows) ==
    IF rows = <<>> THEN <<>>
    ELSE LET k == CHOOSE a \in 1..Len(rows) :
                      \A b \in 1..Len(rows) : rows[b].date <= rows[a].date
         IN  <<rows[k]>> \o
             SortDateDesc(SubSeq(rows, 1, k - 1) \o SubSeq(rows, k + 1, Len(rows)))

\* build_daily_walk_table without the clipping of line 202
build_daily_walk_table_NoClip(daily, workouts) ==
    LET Merged(r) ==
            LET hit == SelectSeq(workouts, LAMBDA w : w[1] = r[1])
                w_km == IF hit = <<>> THEN 0 ELSE hit[1][2]
            IN  [date |-> r[1],
                 Date |-> StrfMDY(r[1]),
                 distance_km |-> Round2(r[2]),
                 distance_workouts_km |-> Round2(w_km),
                 distance_non_workout_km |-> Round2(r[2] - w_km)]
    IN  SortDateDesc([k \in 1..Len(daily) |-> Merged(daily[k])])

\* build_daily_walk_table (lines 188-229)
build_daily_walk_table(daily, workouts) ==
    LET Merged(r) ==
            LET hit == SelectSeq(workouts, LAMBDA w : w[1] = r[1])
                w_km == IF hit = <<>> THEN 0 ELSE hit[1][2]
                non == IF r[2] - w_km < 0 THEN 0 ELSE r[2] - w_km
            IN  [date |-> r[1],
                 Date |-> StrfMDY(r[1]),
                 distance_km |-> Round2(r[2]),
                 distance_workouts_km |-> Round2(w_km),
                 distance_non_workout_km |-> Round2(non)]
    IN  SortDateDesc([k \in 1..Len(daily) |-> Merged(daily[k])])

WtIdle ==
    /\ wt_pc = "idle"
    /\ wt_elem = NoElem
    /\ rows_daily = <<>>
    /\ df_daily_dist = <<>>
    /\ rows_workouts = <<>>
    /\ df_workouts = <<>>
    /\ daily_table = <<>>

WtInit ==
    /\ wt_pc = "records"
    /\ wt_elem = NoElem
    /\ rows_daily = <<>>
    /\ df_daily_dist = <<>>
    /\ rows_workouts = <<>>
    /\ df_workouts = <<>>
    /\ daily_table = <<>>

\* one iteration of the loop of parse_daily_walking (lines 139-176)
WtReadRecord(elem) ==
    /\ wt_pc = "records"
    /\ Len(rows_daily) < MaxRows
    /\ wt_elem' = elem
    /\ rows_daily' = (IF DailyRow(elem) = <<>> THEN rows_daily
                      ELSE Append(rows_daily, DailyRow(elem)))
    /\ UNCHANGED <<wt_pc, df_daily_dist, rows_workouts, df_workouts, daily_table>>
    /\ UNCHANGED wtOthers

\* the end of parse_daily_walking (lines 178-185)
WtFinishDaily ==
    /\ wt_pc = "records"
    /\ wt_pc' = "workouts"
    /\ wt_elem' = NoElem
    /\ df_daily_dist' = GroupSum(rows_daily)
    /\ UNCHANGED <<rows_daily, rows_workouts, df_workouts, daily_table>>
    /\ UNCHANGED wtOthers

\* one iteration of the loop of parse_workouts (lines 61-117)
WtReadWorkout(elem) ==
    /\ wt_pc = "workouts"
    /\ Len(rows_workouts) < MaxRows
    /\ wt_elem' = elem
    /\ rows_workouts' = (IF WorkoutRow(elem) = <<>> THEN rows_workouts
                         ELSE Append(rows_workouts, WorkoutRow(elem)))
    /\ UNCHANGED <<wt_pc, rows_daily, df_daily_dist, df_workouts, daily_table>>
    /\ UNCHANGED wtOthers

\* the end of parse_workouts (lines 119-126)
WtFinishWorkouts ==
    /\ wt_pc = "workouts"
    /\ wt_pc' = "table"
    /\ wt_elem' = NoElem
    /\ df_workouts' = GroupSum(rows_workouts)
    /\ UNCHANGED <<rows_daily, df_daily_dist, rows_workouts, daily_table>>
    /\ UNCHANGED wtOthers

\* main: build_daily_walk_table (line 269)
WtBuildTable ==
    /\ wt_pc = "table"
    /\ wt_pc' = "save"
    /\ daily_table' = build_daily_walk_table(df_daily_dist, df_workouts)
    /\ UNCHANGED <<wt_elem, rows_daily, df_daily_dist, rows_workouts, df_workouts>>
    /\ UNCHANGED wtOthers

\* main: save_excel (lines 251-259, 270)
WtSaveExcel ==
    /\ wt_pc = "save"
    /\ wt_pc' = "done"
    /\ UNCHANGED <<wt_elem, rows_daily, df_daily_dist, rows_workouts, df_workouts,
                   daily_table>>
    /\ UNCHANGED wtOthers

\* ------------------------------------------------------------------------
\* The export documents explored: the Workout and Record elements a scan of
\* health_last_walk.py may meet, in any order and any number
\* ------------------------------------------------------------------------
Stat(type, sum, unit) ==
    [tag |-> "WorkoutStatistics", type |-> type, sum |-> sum, unit |-> unit,
     key |-> "None", value |-> NoNum]

Meta(key, value) ==
    [tag |-> "MetadataEntry", type |-> "None", sum |-> NoNum, unit |-> "None",
     key |-> key, value |-> value]

Wk(type, s, e, children) ==
    [workoutActivityType |-> type,
     startDate |-> DateStr(0, s, "+0100"), endDate |-> DateStr(0, e, "+0100"),
     duration |-> Num(300), children |-> children]

DistStat(n, unit) ==
    Stat("HKQuantityTypeIdentifierDistanceWalkingRunning", Num(n), unit)

\* Walking workouts with an unparseable date, duration or statistic
MalformedWorkouts ==
    { [Wk("HKWorkoutActivityTypeWalking", 180, 240, <<>>)
          EXCEPT !.startDate = BadDate],
      [Wk("HKWorkoutActivityTypeWalking", 90, 240, <<>>)
          EXCEPT !.duration = BadNum],
      Wk("HKWorkoutActivityTypeWalking", 90, 240,
         <<Stat("HKQuantityTypeIdentifierDistanceWalkingRunning", BadNum, "km")>>) }

LastWalkWorkouts ==
    { Wk("HKWorkoutActivityTypeRunning", 300, 400, <<DistStat(500, "km")>>),
      Wk("HKWorkoutActivityTypeWalking", 60, 240, <<>>),
      Wk("HKWorkoutActivityTypeWalking", 60, 240,
         <<Stat("HKQuantityTypeIdentifierActiveEnergyBurned", Num(9000), "kcal"),
           DistStat(200, "km"),
           Meta("HKElevationAscended", Num(1200))>>),
      Wk("HKWorkoutActivityTypeWalking", 60, 240, <<DistStat(197, "km")>>),
      Wk("HKWorkoutActivityTypeWalking", 60, 240, <<DistStat(150, "km")>>),
      Wk("HKWorkoutActivityTypeWalking", 120, 240, <<DistStat(207, "km")>>),
      Wk("HKWorkoutActivityTypeWalking", 120, 240, <<DistStat(100, "mi")>>),
      Wk("HKWorkoutActivityTypeWalking", 120, 240, <<DistStat(300, "m")>>) }
    \cup MalformedWorkouts

Rec(sourceName, type, s, e, value, unit) ==
    [sourceName |-> sourceName, device |-> NoneStr, type |-> type,
     startDate |-> DateStr(0, s, "+0100"), endDate |-> DateStr(0, e, "+0100"),
     value |-> value, unit |-> unit]

HrNumerals == {1145, 1150, 1700}
HrTimes == {60, 120, 180, 240}
DistNumerals == {<<97, "km">>, <<100, "km">>, <<200, "None">>, <<100, "mi">>}
DistEnds == {60, 120, 180, 240, 300}

\* records with a value that is no numeral or with a missing attribute: of
\* the watch inside the window, of the watch outside it, of another source,
\* and of a type the scan does not collect
MalformedRecords ==
    { Rec(Str_AppleWatch, "HKQuantityTypeIdentifierHeartRate", 180, 180, BadNum,
          "count/min"),
      Rec(Str_AppleWatch, "HKQuantityTypeIdentifierHeartRate", 180, 180, NoNum,
          "count/min"),
      Rec(Str_AppleWatch, "HKQuantityTypeIdentifierDistanceWalkingRunning",
          120, 180, BadNum, "km"),
      [Rec(Str_AppleWatch, "HKQuantityTypeIdentifierHeartRate", 180, 180,
           Num(1300), "count/min") EXCEPT !.startDate = NoDate],
      [Rec(Str_AppleWatch, "HKQuantityTypeIdentifierDistanceWalkingRunning",
           120, 180, Num(100), "km") EXCEPT !.endDate = BadDate],
      Rec(Str_AppleWatch, "HKQuantityTypeIdentifierHeartRate", 300, 300, BadNum,
          "count/min"),
      Rec(Str_iPhone, "HKQuantityTypeIdentifierHeartRate", 180, 180, BadNum,
          "count/min"),
      Rec(Str_AppleWatch, "HKQuantityTypeIdentifierStepCount", 120, 180,
          BadNum, "count") }

LastWalkRecords ==
    { Rec(Str_AppleWatch, "HKQuantityTypeIdentifierHeartRate", t, t, Num(n),
          "count/min") : t \in HrTimes, n \in HrNumerals }
    \cup
    { Rec(Str_AppleWatch, "HKQuantityTypeIdentifierDistanceWalkingRunning",
          e - 60, e, Num(d[1]), d[2]) : e \in DistEnds, d \in DistNumerals }
    \cup
    { Rec(Str_iPhone, "HKQuantityTypeIdentifierHeartRate", 120, 120, Num(1300),
          "count/min"),
      Rec(Str_AppleWatch, "HKQuantityTypeIdentifierStepCount", 120, 180,
          Num(10000), "count") }
    \cup MalformedRecords

Init ==
    /\ LwInit /\ WtIdle /\ WvIdle /\ VxIdle /\ OtherJobsIdle
    /\ export_exists \in BOOLEAN

\* the documents of the specification that observes the element in hand:
\* one numeral per kind of sample, every position against the window
ScanWorkouts ==
    { Wk("HKWorkoutActivityTypeRunning", 300, 400, <<DistStat(500, "km")>>),
      Wk("HKWorkoutActivityTypeWalking", 60, 240,
         <<Stat("HKQuantityTypeIdentifierActiveEnergyBurned", Num(9000), "kcal"),
           DistStat(200, "km"),
           Meta("HKElevationAscended", Num(1200))>>),
      [Wk("HKWorkoutActivityTypeWalking", 60, 200, <<DistStat(150, "km")>>)
          EXCEPT !.duration = Num(450)],
      [Wk("HKWorkoutActivityTypeWalking", 120, 240, <<DistStat(207, "km")>>)
          EXCEPT !.duration = NoNum] }
    \cup MalformedWorkouts

ScanRecords ==
    { Rec(Str_AppleWatch, "HKQuantityTypeIdentifierHeartRate", t, t, Num(1150),
          "count/min") : t \in HrTimes }
    \cup
    { Rec(Str_AppleWatch, "HKQuantityTypeIdentifierHeartRate", 0, 60, Num(1150),
          "count/min"),
      Rec(Str_AppleWatch, "HKQuantityTypeIdentifierHeartRate", 30, 90, Num(1150),
          "count/min"),
      Rec(Str_AppleWatch, "HKQuantityTypeIdentifierHeartRate", 240, 300,
          Num(1150), "count/min") }
    \cup
    { Rec(Str_AppleWatch, "HKQuantityTypeIdentifierDistanceWalkingRunning",
          e - 60, e, Num(100), "km") : e \in DistEnds }
    \cup
    { Rec(Str_iPhone, "HKQuantityTypeIdentifierHeartRate", 120, 120, Num(1300),
          "count/min"),
      Rec(Str_AppleWatch, "HKQuantityTypeIdentifierStepCount", 120, 180,
          Num(10000), "count") }
    \cup MalformedRecords

NextScan ==
    \/ NoExport
    \/ \E elem \in ScanWorkouts : ReadWorkout(elem)
    \/ FinishFind
    \/ \E elem \in ScanRecords : ScanRecord(elem)
    \/ FinishCollect

SpecScan == Init /\ [][NextScan]_vars

Next ==
    \/ NoExport
    \/ \E elem \in LastWalkWorkouts : ReadWorkout(elem)
    \/ FinishFind
    \/ \E elem \in LastWalkRecords : ReadRecord(elem)
    \/ FinishCollect
    \/ ComputeZones
    \/ BeginSplits
    \/ SplitStep
    \/ WriteReport

Spec == Init /\ [][Next]_vars

\* ------------------------------------------------------------------------
\* The export documents explored by walks_total.py
\* ------------------------------------------------------------------------
WtRec(type, sourceName, device, startDate, value, unit) ==
    [NoElem EXCEPT !.tag = "Record", !.type = type, !.sourceName = sourceName,
                   !.device = device, !.startDate = startDate,
                   !.value = value, !.unit = unit]

WtWk(type, sourceName, device, startDate, total, unit, children) ==
    [NoElem EXCEPT !.tag = "Workout", !.workoutActivityType = type,
                   !.sourceName = sourceName, !.device = device,
                   !.startDate = startDate, !.totalDistance = total,
                   !.totalDistanceUnit = unit, !.children = children]

WtSources == { <<Str_AppleWatch, NoneStr>>, <<NoneStr, Str_AppleWatch>>,
               <<Str_Wat, Str_ch>> }

WtDates == { NoDate, BadDate,
             DateStr(CUTOFF_DATE - 1, 86399, "-0500"),
             DateStr(CUTOFF_DATE, 0, "+0100"),
             DateStr(CUTOFF_DATE + 1, 43200, "+0100") }

WtKeptDates == { d \in WtDates : d.k = "ok" /\ d.date >= CUTOFF_DATE }

\* every combination of type, source and date with a well-formed value, and
\* every kind of value on the elements that pass the three filters
WtRecords ==
    { WtRec(t, src[1], src[2], d, Num(150), "km") :
        t \in {"HKQuantityTypeIdentifierDistanceWalkingRunning",
               "HKQuantityTypeIdentifierStepCount"},
        src \in WtSources, d \in WtDates }
    \cup
    { WtRec("HKQuantityTypeIdentifierDistanceWalking", Str_AppleWatch, NoneStr,
            d, vu[1], vu[2]) :
        d \in WtKeptDates,
        vu \in {<<NoNum, "km">>, <<EmptyNum, "km">>, <<BadNum, "km">>,
                <<Num(150), "m">>, <<Num(150), "None">>} }

WtWorkouts ==
    { WtWk(t, src[1], src[2], d, Num(100), "km", <<>>) :
        t \in {"HKWorkoutActivityTypeWalking", "HKWorkoutActivityTypeRunning"},
        src \in WtSources, d \in WtDates }
    \cup
    { WtWk("HKWorkoutActivityTypeWalking", Str_AppleWatch, NoneStr,
           DateStr(CUTOFF_DATE, 0, "+0100"), v, "None", c) :
        v \in {NoNum, BadNum}, c \in {<<>>, <<DistStat(300, "m")>>} }

NextTotal ==
    \/ \E elem \in WtRecords : WtReadRecord(elem)
    \/ WtFinishDaily
    \/ \E elem \in WtWorkouts : WtReadWorkout(elem)
    \/ WtFinishWorkouts
    \/ WtBuildTable
    \/ WtSaveExcel

InitTotal ==
    /\ WtInit /\ LwInit /\ WvIdle /\ VxIdle /\ OtherJobsIdle
    /\ export_exists = TRUE

SpecTotal == InitTotal /\ [][NextTotal]_vars

\* ------------------------------------------------------------------------
\* extract_weight_and_vo2.py
\* ------------------------------------------------------------------------
\* largest number of observations one scan of an extraction job retains
MaxObs == 3

\* dt.date(2025, 8, 10) as a proleptic Gregorian ordinal
START_DATE == 739473

\* the ascending sequence of the members of a set of integers
RECURSIVE SortedSeq(_)
SortedSeq(S) ==
    IF S = {} THEN <<>>
    ELSE LET d == CHOOSE x \in S : \A y \in S : x <= y
         IN  <<d>> \o SortedSeq(S \ {d})

\* the keys of the rows <<key, value>> and the values under one key
KeysOf(rows) == { rows[k][1] : k \in 1..Len(rows) }
ValuesOn(rows, d) ==
    LET sel == SelectSeq(rows, LAMBDA r : r[1] = d)
    IN  [k \in 1..Len(sel) |-> sel[k][2]]

\* Series.mean() of a non-empty group
Mean(vals) == MulDivRound(SumSeq(vals), 1, Len(vals))

\* the keys of a merge that keeps the dates of the left frame only
JoinKeys_Left(left, right) == left

\* the keys of pd.merge(..., how="outer")
JoinKeys(left, right) == left \cup right

\* aggregate_daily (lines 61-70)
aggregate_daily(df_weight, df_vo2) ==
    LET df_w == [d \in KeysOf(df_weight) |-> Mean(ValuesOn(df_weight, d))]
        df_v == [d \in KeysOf(df_vo2) |-> MaxSeq(ValuesOn(df_vo2, d))]
        keys == SortedSeq(JoinKeys(DOMAIN df_w, DOMAIN df_v))
    IN  [k \in 1..Len(keys) |->
           [date |-> keys[k],
            weight_kg |-> IF keys[k] \in DOMAIN df_w THEN Some(df_w[keys[k]])
                          ELSE NoneF,
            vo2max |-> IF keys[k] \in DOMAIN df_v THEN Some(df_v[keys[k]])
                       ELSE NoneF]]

\* Series.dropna().iloc[0]: the first value that is not null, NoneF when
\* there is none (iloc raises IndexError)
RECURSIVE FirstNotNull(_)
FirstNotNull(col) ==
    IF col = <<>> THEN NoneF
    ELSE IF Head(col).some THEN Head(col) ELSE FirstNotNull(Tail(col))

\* a - b of two cells, null when one of them is
Minus(a, b) == IF a.some /\ b.some THEN Some(a.v - b.v) ELSE NoneF

\* the cell of vo2_gain_per_kg_lost (lines 84-89)
GainPerKg(weight_delta, vo2_delta) ==
    IF weight_delta.some /\ weight_delta.v < 0 /\ vo2_delta.some
    THEN IF vo2_delta.v >= 0
         THEN Some(MulDivRound(vo2_delta.v, FP, -weight_delta.v))
         ELSE Some(-MulDivRound(-vo2_delta.v, FP, -weight_delta.v))
    ELSE NoneF

\* add_metrics (lines 73-91) of a frame with a weight and a VO2max
add_metrics(daily) ==
    LET start_weight == FirstNotNull([k \in 1..Len(daily) |-> daily[k].weight_kg])
        start_vo2 == FirstNotNull([k \in 1..Len(daily) |-> daily[k].vo2max])
    IN  [k \in 1..Len(daily) |->
           LET wd == Minus(daily[k].weight_kg, start_weight)
               vd == Minus(daily[k].vo2max, start_vo2)
           IN  [date |-> daily[k].date,
                weight_kg |-> daily[k].weight_kg,
                vo2max |-> daily[k].vo2max,
                days_from_start |-> daily[k].date - daily[1].date,
                weight_delta_kg_from_start |-> wd,
                vo2_delta_from_start |-> vd,
                vo2_gain_per_kg_lost |-> GainPerKg(wd, vd)]]

\* DataFrame.round(2) of one cell
Round2Cell(c) == IF c.some THEN Some(Round2(c.v)) ELSE c

\* the sheet of save_excel (lines 105-118): newest date first, two decimals
FinalSheet(daily) ==
    LET desc == SortDateDesc(daily)
    IN  [k \in 1..Len(desc) |->
           [desc[k] EXCEPT
              !.weight_kg = Round2Cell(@),
              !.vo2max = Round2Cell(@),
              !.weight_delta_kg_from_start = Round2Cell(@),
              !.vo2_delta_from_start = Round2Cell(@),
              !.vo2_gain_per_kg_lost = Round2Cell(@)]]

WvInit ==
    /\ wv_pc = "parse" /\ weight_rows = <<>> /\ vo2_rows = <<>>
    /\ wv_daily = <<>> /\ wv_final = <<>> /\ wv_written = 0 /\ wv_err = ""

\* iterparse finds no export.xml: the first step of the loop raises (line 31)
WvNoExport ==
    /\ wv_pc = "parse"
    /\ ~export_exists
    /\ wv_pc' = "error"
    /\ wv_err' = "OSError"
    /\ UNCHANGED <<weight_rows, vo2_rows, wv_daily, wv_final, wv_written>>
    /\ UNCHANGED wvOthers

\* one iteration of the loop of parse_export (lines 31-52)
WvReadRecord(elem) ==
    /\ wv_pc = "parse"
    /\ export_exists
    /\ Len(weight_rows) + Len(vo2_rows) < MaxObs
    /\ IF elem.value.k # "num"
       THEN UNCHANGED <<wv_pc, wv_err, weight_rows, vo2_rows>>
       ELSE IF elem.startDate.k # "ok"
       THEN /\ wv_pc' = "error"
            /\ wv_err' = ParseError(elem.startDate)
            /\ UNCHANGED <<weight_rows, vo2_rows>>
       ELSE IF parse_dt(elem.startDate).date < START_DATE
       THEN UNCHANGED <<wv_pc, wv_err, weight_rows, vo2_rows>>
       ELSE IF elem.type = "HKQuantityTypeIdentifierBodyMass"
       THEN /\ weight_rows' = Append(weight_rows,
                                <<parse_dt(elem.startDate).date, Float(elem.value)>>)
            /\ UNCHANGED <<wv_pc, wv_err, vo2_rows>>
       ELSE IF elem.type = "HKQuantityTypeIdentifierVO2Max"
       THEN /\ vo2_rows' = Append(vo2_rows,
                              <<parse_dt(elem.startDate).date, Float(elem.value)>>)
            /\ UNCHANGED <<wv_pc, wv_err, weight_rows>>
       ELSE UNCHANGED <<wv_pc, wv_err, weight_rows, vo2_rows>>
    /\ UNCHANGED <<wv_daily, wv_final, wv_written>>
    /\ UNCHANGED wvOthers

\* the end of parse_export and aggregate_daily (lines 54-70, 165-166)
WvAggregateDaily ==
    /\ wv_pc = "parse"
    /\ export_exists
    /\ wv_pc' = "metrics"
    /\ wv_daily' = aggregate_daily(weight_rows, vo2_rows)
    /\ UNCHANGED <<weight_rows, vo2_rows, wv_final, wv_written, wv_err>>
    /\ UNCHANGED wvOthers

\* add_metrics inside an open ExcelWriter: the failure leaves a file behind
WvAddMetrics_InsideWriter ==
    /\ wv_pc = "metrics"
    /\ IF \/ wv_daily = <<>>
          \/ ~FirstNotNull([k \in 1..Len(wv_daily) |-> wv_daily[k].weight_kg]).some
          \/ ~FirstNotNull([k \in 1..Len(wv_daily) |-> wv_daily[k].vo2max]).some
       THEN /\ wv_pc' = "error"
            /\ wv_err' = "IndexError"
            /\ wv_daily' = wv_daily
            /\ wv_written' = wv_written + 1
       ELSE /\ wv_pc' = "save"
            /\ wv_err' = wv_err
            /\ wv_daily' = add_metrics(wv_daily)
            /\ wv_written' = wv_written
    /\ UNCHANGED <<weight_rows, vo2_rows, wv_final>>
    /\ UNCHANGED wvOthers

\* main: add_metrics (lines 73-91, 167); iloc[0] of an empty frame or of a
\* column without a value raises IndexError
WvAddMetrics ==
    /\ wv_pc = "metrics"
    /\ IF \/ wv_daily = <<>>
          \/ ~FirstNotNull([k \in 1..Len(wv_daily) |-> wv_daily[k].weight_kg]).some
          \/ ~FirstNotNull([k \in 1..Len(wv_daily) |-> wv_daily[k].vo2max]).some
       THEN /\ wv_pc' = "error"
            /\ wv_err' = "IndexError"
            /\ wv_daily' = wv_daily
       ELSE /\ wv_pc' = "save"
            /\ wv_err' = wv_err
            /\ wv_daily' = add_metrics(wv_daily)
    /\ UNCHANGED <<weight_rows, vo2_rows, wv_final, wv_written>>
    /\ UNCHANGED wvOthers

\* main: save_excel (lines 94-161, 169)
WvSaveExcel ==
    /\ wv_pc = "save"
    /\ wv_pc' = "done"
    /\ wv_final' = FinalSheet(wv_daily)
    /\ wv_written' = wv_written + 1
    /\ UNCHANGED <<weight_rows, vo2_rows, wv_daily, wv_err>>
    /\ UNCHANGED wvOthers

\* ------------------------------------------------------------------------
\* extract_vo2max.py
\* ------------------------------------------------------------------------
\* dt.date(2025, 8, 10) as a proleptic Gregorian ordinal
vx_CUTOFF_DATE == 739473

\* the reduction that keeps the latest observation of the day
DayValue_Last(vals) == vals[Len(vals)]

\* groupby("Date")["VO2max"].max() of one group (lines 95-97)
DayValue(vals) == MaxSeq(vals)

\* main: the frame "daily" (lines 92-99), rows <<Date, VO2max>> by date
DailyMax(rows) ==
    LET keys == SortedSeq(KeysOf(rows))
    IN  [k \in 1..Len(keys) |-> <<keys[k], DayValue(ValuesOn(rows, keys[k]))>>]

VxInit ==
    /\ vx_pc = "scan" /\ vx_rows = <<>> /\ vx_daily = <<>>
    /\ vx_written = 0 /\ vx_err = ""

\* export.xml does not exist (lines 33-34)
VxNoExport ==
    /\ vx_pc = "scan"
    /\ ~export_exists
    /\ vx_pc' = "error"
    /\ vx_err' = "FileNotFoundError"
    /\ UNCHANGED <<vx_rows, vx_daily, vx_written>>
    /\ UNCHANGED vxOthers

\* one iteration of the loop of extract_vo2_since_cutoff (lines 46-71)
VxReadRecord(elem) ==
    /\ vx_pc = "scan"
    /\ export_exists
    /\ Len(vx_rows) < MaxObs
    /\ IF elem.type # "HKQuantityTypeIdentifierVO2Max"
       THEN UNCHANGED <<vx_pc, vx_err, vx_rows>>
       ELSE IF elem.value.k # "num"
       THEN /\ vx_pc' = "error"
            /\ vx_err' = ParseError(elem.value)
            /\ vx_rows' = vx_rows
       ELSE IF elem.startDate.k # "ok"
       THEN /\ vx_pc' = "error"
            /\ vx_err' = ParseError(elem.startDate)
            /\ vx_rows' = vx_rows
       ELSE IF parse_dt(elem.startDate).date >= vx_CUTOFF_DATE
       THEN /\ vx_rows' = Append(vx_rows,
                             <<parse_dt(elem.startDate).date, Float(elem.value)>>)
            /\ UNCHANGED <<vx_pc, vx_err>>
       ELSE UNCHANGED <<vx_pc, vx_err, vx_rows>>
    /\ UNCHANGED <<vx_daily, vx_written>>
    /\ UNCHANGED vxOthers

\* main after the scan: nothing found, or the daily frame (lines 85-99)
VxDaily ==
    /\ vx_pc = "scan"
    /\ export_exists
    /\ IF vx_rows = <<>>
       THEN /\ vx_pc' = "done"
            /\ vx_daily' = vx_daily
       ELSE /\ vx_pc' = "save"
            /\ vx_daily' = DailyMax(vx_rows)
    /\ UNCHANGED <<vx_rows, vx_written, vx_err>>
    /\ UNCHANGED vxOthers

\* main: the workbook is built and saved (lines 117-204)
VxSave ==
    /\ vx_pc = "save"
    /\ vx_pc' = "done"
    /\ vx_written' = vx_written + 1
    /\ UNCHANGED <<vx_rows, vx_daily, vx_err>>
    /\ UNCHANGED vxOthers

\* ------------------------------------------------------------------------
\* The export documents explored by the two extraction jobs
\* ------------------------------------------------------------------------
VitalDates == { DateStr(START_DATE - 1, 86399, "+0100"),
                DateStr(START_DATE, 0, "+0100"),
                DateStr(START_DATE + 1, 43200, "+0100") }

VitalRec(type, startDate, value) ==
    WtRec(type, Str_AppleWatch, NoneStr, startDate, value, "None")

\* weights and VO2max values on every date, a record of another type, and
\* records with a value that is no numeral or without a start date
VitalRecords ==
    { VitalRec("HKQuantityTypeIdentifierBodyMass", d, Num(n)) :
        d \in VitalDates, n \in {5000, 5050} }
    \cup
    { VitalRec("HKQuantityTypeIdentifierVO2Max", d, Num(n)) :
        d \in VitalDates, n \in {4000, 4125} }
    \cup
    { VitalRec("HKQuantityTypeIdentifierStepCount",
               DateStr(START_DATE, 0, "+0100"), Num(10000)),
      VitalRec("HKQuantityTypeIdentifierBodyMass",
               DateStr(START_DATE, 0, "+0100"), BadNum),
      VitalRec("HKQuantityTypeIdentifierBodyMass",
               DateStr(START_DATE, 0, "+0100"), NoNum),
      VitalRec("HKQuantityTypeIdentifierVO2Max",
               DateStr(START_DATE, 0, "+0100"), BadNum),
      VitalRec("HKQuantityTypeIdentifierVO2Max", BadDate, Num(4000)),
      VitalRec("HKQuantityTypeIdentifierStepCount", NoDate, Num(10000)) }

\* the last-walk job when another job runs
LwIdle ==
    /\ pc = "idle" /\ last_start = -1 /\ best = NoBest
    /\ hr_samples = <<>> /\ dist_samples_raw = <<>> /\ dist_samples = <<>>
    /\ mode = "" /\ zones = NoZones /\ bounds = <<>> /\ i = 0 /\ idx = 0
    /\ prev_t = 0 /\ prev_dist = 0 /\ splits = <<>> /\ err = ""
    /\ lw_workouts = <<>> /\ lw_elem = NoRecord /\ lw_written = 0

NextWeight ==
    \/ WvNoExport
    \/ \E elem \in VitalRecords : WvReadRecord(elem)
    \/ WvAggregateDaily
    \/ WvAddMetrics
    \/ WvSaveExcel

InitWeight ==
    /\ WvInit /\ LwIdle /\ WtIdle /\ VxIdle /\ OtherJobsIdle
    /\ export_exists \in BOOLEAN

SpecWeight == InitWeight /\ [][NextWeight]_vars

NextVo2 ==
    \/ VxNoExport
    \/ \E elem \in VitalRecords : VxReadRecord(elem)
    \/ VxDaily
    \/ VxSave

InitVo2 ==
    /\ VxInit /\ LwIdle /\ WtIdle /\ WvIdle /\ OtherJobsIdle
    /\ export_exists \in BOOLEAN

SpecVo2 == InitVo2 /\ [][NextVo2]_vars

\* a run of one of the three jobs that build a table per day
InitDaily ==
    /\ LwIdle /\ OtherJobsIdle
    /\ \/ WtInit /\ WvIdle /\ VxIdle /\ export_exists = TRUE
       \/ WtIdle /\ WvInit /\ VxIdle /\ export_exists \in BOOLEAN
       \/ WtIdle /\ WvIdle /\ VxInit /\ export_exists \in BOOLEAN

NextDaily == NextTotal \/ NextWeight \/ NextVo2

SpecDaily == InitDaily /\ [][NextDaily]_vars

\* a run of one of the three jobs that read export.xml and write a report
InitJobs ==
    /\ export_exists \in BOOLEAN
    /\ WtIdle /\ OtherJobsIdle
    /\ \/ LwInit /\ WvIdle /\ VxIdle
       \/ LwIdle /\ WvInit /\ VxIdle
       \/ LwIdle /\ WvIdle /\ VxInit

NextJobs == Next \/ NextWeight \/ NextVo2

SpecJobs == InitJobs /\ [][NextJobs]_vars

\* ------------------------------------------------------------------------
\* walks_by_week.py
\* ------------------------------------------------------------------------
\* largest number of rows one weekly job works on
MaxWeekRows == 3

\* dt.date(2025, 8, 1) as a proleptic Gregorian ordinal
wk_START_DATE == 739464

\* _ymd2ord(year, 1, 1): the ordinal of the first of January
FirstOfJanuary(year) ==
    LET y == year - 1
    IN  y * 365 + y \div 4 - y \div 100 + y \div 400 + 1

\* _isoweek1monday(year): the ordinal of the Monday that starts ISO week 1
isoweek1monday(year) ==
    LET firstday == FirstOfJanuary(year)
        firstweekday == (firstday + 6) % 7
        week1monday == firstday - firstweekday
    IN  IF firstweekday > 3 THEN week1monday + 7 ELSE week1monday

\* a week key built from the calendar year of the date
isocalendar_CalendarYear(ordinal) ==
    LET year == StrfMDY(ordinal)[3]
        today == ordinal - isoweek1monday(year)
    IN  <<year, ((today \div 7) % 53) + 1, (today % 7) + 1>>

\* date.isocalendar(): <<ISO year, ISO week, ISO weekday>>
isocalendar(ordinal) ==
    LET year == StrfMDY(ordinal)[3]
        today == ordinal - isoweek1monday(year)
    IN  IF today < 0
        THEN LET t == ordinal - isoweek1monday(year - 1)
             IN  <<year - 1, (t \div 7) + 1, (t % 7) + 1>>
        ELSE IF today \div 7 >= 52 /\ ordinal >= isoweek1monday(year + 1)
        THEN <<year + 1, 1, (today % 7) + 1>>
        ELSE <<year, (today \div 7) + 1, (today % 7) + 1>>

\* the first WorkoutStatistics of the walking+running distance whose sum
\* is a number (lines 68-79): <<found, dist, unit>>
RECURSIVE wk_StatDistance(_)
wk_StatDistance(children) ==
    IF children = <<>> THEN <<FALSE, 0, "None">>
    ELSE LET ws == Head(children)
         IN  IF /\ ws.tag = "WorkoutStatistics"
                /\ ws.type = "HKQuantityTypeIdentifierDistanceWalkingRunning"
                /\ ws.sum.k = "num"
             THEN <<TRUE, Float(ws.sum), ws.unit>>
             ELSE wk_StatDistance(Tail(children))

\* get_distance_km_from_workout (lines 49-86)
get_distance_km_from_workout(elem) ==
    IF elem.totalDistance.k = "num"
    THEN distance_value_to_km(Float(elem.totalDistance), elem.totalDistanceUnit)
    ELSE LET st == wk_StatDistance(elem.children)
         IN  IF st[1] THEN distance_value_to_km(st[2], st[3]) ELSE 0

\* get_duration_min_from_workout (lines 89-111)
get_duration_min_from_workout(elem) ==
    IF elem.duration.k # "num" THEN 0
    ELSE LET dur == Float(elem.duration)
         IN  IF elem.durationUnit \in {"None", "min", "minute", "minutes"} THEN dur
             ELSE IF elem.durationUnit \in {"hr", "hour", "hours"} THEN dur * 60
             ELSE IF elem.durationUnit \in {"sec", "second", "seconds"}
                  THEN MulDivRound(dur, 1, 60)
             ELSE dur

\* the row parse_workouts appends for a Workout element, <<>> if the element
\* is skipped (lines 125-160)
WeekRow(elem) ==
    IF elem.workoutActivityType # "HKWorkoutActivityTypeWalking" THEN <<>>
    ELSE IF elem.startDate.k # "ok" THEN <<>>
    ELSE LET date == parse_dt(elem.startDate).date
         IN  IF date < wk_START_DATE THEN <<>>
             ELSE <<[year |-> isocalendar(date)[1],
                     week |-> isocalendar(date)[2],
                     date |-> date,
                     distance_km |-> get_distance_km_from_workout(elem),
                     duration_min |-> get_duration_min_from_workout(elem)]>>

\* the week keys <<year, week>> of rows, latest first
RECURSIVE WeekKeysDesc(_)
WeekKeysDesc(S) ==
    IF S = {} THEN <<>>
    ELSE LET k == CHOOSE x \in S :
                    \A y \in S : y[1] < x[1] \/ (y[1] = x[1] /\ y[2] <= x[2])
         IN  <<k>> \o WeekKeysDesc(S \ {k})

\* the smallest and the greatest member of a sequence of integers
MinSeq(s) == CHOOSE x \in {s[k] : k \in 1..Len(s)} : \A k \in 1..Len(s) : x <= s[k]
MaxOf(s) == CHOOSE x \in {s[k] : k \in 1..Len(s)} : \A k \in 1..Len(s) : x >= s[k]

\* a pace that is 0 instead of null for a week with no distance
AvgPace_ZeroPace(duration_min, distance_km) ==
    Some(IF distance_km > 0 THEN MulDivRound(duration_min, FP, distance_km)
         ELSE 0)

\* duration_min / distance_km if distance_km > 0 else None (lines 204-209)
AvgPace(duration_min, distance_km) ==
    IF distance_km > 0 THEN Some(MulDivRound(duration_min, FP, distance_km))
    ELSE NoneF

\* aggregate_weekly (lines 172-241)
aggregate_weekly(df_raw) ==
    LET keys == WeekKeysDesc({ <<df_raw[k].year, df_raw[k].week>> :
                               k \in 1..Len(df_raw) })
        Row(key) ==
            LET g == SelectSeq(df_raw, LAMBDA r : r.year = key[1] /\ r.week = key[2])
                dist == SumSeq([k \in 1..Len(g) |-> g[k].distance_km])
                dur == SumSeq([k \in 1..Len(g) |-> g[k].duration_min])
                dates == [k \in 1..Len(g) |-> g[k].date]
            IN  [year |-> key[1], week |-> key[2],
                 distance_km |-> dist,
                 duration_min |-> dur,
                 workouts |-> Len(g),
                 time_hours |-> MulDivRound(dur, 1, 60),
                 avg_pace_min_per_km |-> AvgPace(dur, dist),
                 week_start |-> MinSeq(dates),
                 week_end |-> MaxOf(dates)]
    IN  [k \in 1..Len(keys) |-> Row(keys[k])]

\* minutes_to_h_m (lines 246-252): <<hours, minutes>>
minutes_to_h_m(minutes) ==
    LET total_min == MulDivRound(minutes, 1, FP)
    IN  <<total_min \div 60, total_min % 60>>

\* pace_to_str (lines 261-267): <<minutes, seconds>>, <<>> for a null pace
pace_to_str(pace) ==
    IF ~pace.some THEN <<>>
    ELSE LET total_sec == MulDivRound(pace.v, 60, FP)
         IN  <<total_sec \div 60, total_sec % 60>>

\* distance_to_km_m (lines 270-279): <<km, metres>>
distance_to_km_m(dist_km) ==
    LET d == Round2(dist_km)
        km_int == d \div FP
        meters == MulDivRound(d - km_int * FP, 1000, FP)
    IN  IF meters = 1000 THEN <<km_int + 1, 0>> ELSE <<km_int, meters>>

\* date_to_ru_str (lines 282-291): <<day, month, year>>
date_to_ru_str(d) == <<StrfMDY(d)[2], StrfMDY(d)[1], StrfMDY(d)[3]>>

\* format_weekly (lines 294-332)
format_weekly(df) ==
    [k \in 1..Len(df) |->
       [week_start |-> date_to_ru_str(df[k].week_start),
        week_end |-> date_to_ru_str(df[k].week_end),
        distance_km |-> distance_to_km_m(df[k].distance_km),
        duration_min |-> minutes_to_h_m(df[k].duration_min),
        workouts |-> df[k].workouts,
        time_hours |-> minutes_to_h_m(df[k].time_hours * 60),
        avg_pace_min_per_km |-> pace_to_str(df[k].avg_pace_min_per_km)]]

WkInit ==
    /\ wk_pc = "parse" /\ wk_rows = <<>> /\ wk_weekly = <<>>
    /\ wk_sheet = <<>> /\ wk_written = 0

\* one iteration of the loop of parse_workouts (lines 124-160)
WkReadWorkout(elem) ==
    /\ wk_pc = "parse"
    /\ Len(wk_rows) < MaxWeekRows
    /\ wk_rows' = wk_rows \o WeekRow(elem)
    /\ UNCHANGED <<wk_pc, wk_weekly, wk_sheet, wk_written>>
    /\ UNCHANGED wkOthers

\* the end of parse_workouts and aggregate_weekly (lines 162-241, 369-372)
WkAggregateWeekly ==
    /\ wk_pc = "parse"
    /\ wk_pc' = "format"
    /\ wk_weekly' = aggregate_weekly(wk_rows)
    /\ UNCHANGED <<wk_rows, wk_sheet, wk_written>>
    /\ UNCHANGED wkOthers

\* main: format_weekly and save_excel (lines 373-378)
WkSaveExcel ==
    /\ wk_pc = "format"
    /\ wk_pc' = "done"
    /\ wk_sheet' = format_weekly(wk_weekly)
    /\ wk_written' = wk_written + 1
    /\ UNCHANGED <<wk_rows, wk_weekly>>
    /\ UNCHANGED wkOthers

\* ------------------------------------------------------------------------
\* weekly_from_daily.py
\* ------------------------------------------------------------------------
\* dt.datetime(2025, 10, 1) as a proleptic Gregorian ordinal
OCTOBER_FIRST == 739525

IsLeap(y) == y % 4 = 0 /\ (y % 100 # 0 \/ y % 400 = 0)

\* the days of the year before the first of month m
DaysBeforeMonth(y, m) ==
    <<0, 31, 59, 90, 120, 151, 181, 212, 243, 273, 304, 334>>[m]
    + (IF m > 2 /\ IsLeap(y) THEN 1 ELSE 0)

\* pd.to_datetime(s, format="%m/%d/%Y") of <<month, day, year>>
ParseMDY(s) == FirstOfJanuary(s[3]) - 1 + DaysBeforeMonth(s[3], s[1]) + s[2]

\* the rows of main after the filter and the week columns (lines 25-36)
ReadDailyWalk(sheet) ==
    LET df == [k \in 1..Len(sheet) |->
                 [date |-> ParseMDY(sheet[k].Date),
                  total |-> sheet[k].distance_km,
                  workout |-> sheet[k].distance_workouts_km,
                  nonwork |-> sheet[k].distance_non_workout_km]]
        kept == SelectSeq(df, LAMBDA r : r.date >= OCTOBER_FIRST)
    IN  [k \in 1..Len(kept) |->
           [date |-> kept[k].date,
            year |-> isocalendar(kept[k].date)[1],
            week |-> isocalendar(kept[k].date)[2],
            total |-> kept[k].total,
            workout |-> kept[k].workout,
            nonwork |-> kept[k].nonwork]]

\* a / b * 100 rounded to one decimal, in tenths; null when b is 0
SharePercent(a, b) == IF b = 0 THEN NoneF ELSE Some(MulDivRound(a, 1000, b))

\* the weekly frame of main (lines 39-71)
WeeklyFromDaily(df) ==
    LET keys == WeekKeysDesc({ <<df[k].year, df[k].week>> : k \in 1..Len(df) })
        Row(key) ==
            LET g == SelectSeq(df, LAMBDA r : r.year = key[1] /\ r.week = key[2])
                dates == [k \in 1..Len(g) |-> g[k].date]
                days == Cardinality({ g[k].date : k \in 1..Len(g) })
                total == SumSeq([k \in 1..Len(g) |-> g[k].total])
                workout == SumSeq([k \in 1..Len(g) |-> g[k].workout])
                nonwork == SumSeq([k \in 1..Len(g) |-> g[k].nonwork])
            IN  [year |-> key[1], week |-> key[2],
                 week_start |-> date_to_ru_str(MinSeq(dates)),
                 week_end |-> date_to_ru_str(MaxOf(dates)),
                 first_date |-> MinSeq(dates),
                 last_date |-> MaxOf(dates),
                 days_with_data |-> days,
                 total_walk_km |-> Round2(total),
                 workout_walk_km |-> Round2(workout),
                 nonwork_walk_km |-> Round2(nonwork),
                 avg_total_km_per_day |-> Round2(MulDivRound(total, 1, days)),
                 avg_nonwork_km_per_day |-> Round2(MulDivRound(nonwork, 1, days)),
                 nonwork_share |-> SharePercent(nonwork, total)]
    IN  [k \in 1..Len(keys) |-> Row(keys[k])]

WdInit ==
    /\ wd_pc = "read" /\ wd_df = <<>> /\ wd_weekly = <<>> /\ wd_written = 0

\* main: daily_walk.xlsx is not there, pd.read_excel raises (line 25)
WdNoInput ==
    /\ wd_pc = "read"
    /\ wd_pc' = "error"
    /\ UNCHANGED <<wd_df, wd_weekly, wd_written>>
    /\ UNCHANGED wdOthers

\* main: the sheet is read, filtered and keyed by week (lines 25-36)
WdReadExcel(sheet) ==
    /\ wd_pc = "read"
    /\ wd_pc' = "weekly"
    /\ wd_df' = ReadDailyWalk(sheet)
    /\ UNCHANGED <<wd_weekly, wd_written>>
    /\ UNCHANGED wdOthers

\* main: the weekly frame (lines 39-98)
WdWeekly ==
    /\ wd_pc = "weekly"
    /\ wd_pc' = "save"
    /\ wd_weekly' = WeeklyFromDaily(wd_df)
    /\ UNCHANGED <<wd_df, wd_written>>
    /\ UNCHANGED wdOthers

\* main: the workbook is written (lines 100-109)
WdSave ==
    /\ wd_pc = "save"
    /\ wd_pc' = "done"
    /\ wd_written' = wd_written + 1
    /\ UNCHANGED <<wd_df, wd_weekly>>
    /\ UNCHANGED wdOthers

\* ------------------------------------------------------------------------
\* The documents explored by the two weekly jobs
\* ------------------------------------------------------------------------
\* 2025-07-31, 2025-09-30, 2025-10-01 (Wednesday), 2025-10-05 (Sunday),
\* 2025-10-06 (Monday), 2025-12-28 (Sunday), 2025-12-29 (Monday),
\* 2026-01-01, 2026-01-04 (Sunday), 2026-01-05 (Monday)
WeekDates == {739463, 739524, 739525, 739529, 739530, 739613, 739614, 739617,
              739620, 739621}

NoWorkout ==
    [tag |-> "Workout", workoutActivityType |-> "None", startDate |-> NoDate,
     totalDistance |-> NoNum, totalDistanceUnit |-> "None", duration |-> NoNum,
     durationUnit |-> "None", children |-> <<>>]

WeekWk(type, startDate, total, unit, duration, durationUnit, children) ==
    [NoWorkout EXCEPT !.workoutActivityType = type, !.startDate = startDate,
                      !.totalDistance = total, !.totalDistanceUnit = unit,
                      !.duration = duration, !.durationUnit = durationUnit,
                      !.children = children]

\* a 2 km, 30 min walk on every date; on 2025-10-01 walks with no distance,
\* with the distance in a statistic, with other duration units, with no
\* duration; a run; walks without a usable start date
WeekWorkouts ==
    { WeekWk("HKWorkoutActivityTypeWalking", DateStr(d, 36000, "+0100"),
             Num(200), "km", Num(3000), "min", <<>>) : d \in WeekDates }
    \cup
    { WeekWk("HKWorkoutActivityTypeWalking", DateStr(739525, 36000, "+0100"),
             v[1], v[2], v[3], v[4], v[5]) :
        v \in { <<Num(0), "km", Num(3000), "min", <<>> >>,
                <<NoNum, "None", Num(4500), "None", <<DistStat(300, "km")>> >>,
                <<BadNum, "km", Num(50), "hr", <<>> >>,
                <<Num(100), "mi", Num(18000), "sec", <<>> >>,
                <<Num(150), "None", NoNum, "min", <<>> >> } }
    \cup
    { WeekWk("HKWorkoutActivityTypeRunning", DateStr(739525, 36000, "+0100"),
             Num(500), "km", Num(3000), "min", <<>>),
      WeekWk("HKWorkoutActivityTypeWalking", NoDate,
             Num(200), "km", Num(3000), "min", <<>>),
      WeekWk("HKWorkoutActivityTypeWalking", BadDate,
             Num(200), "km", Num(3000), "min", <<>>) }

\* the kilometres of a day of daily_walk.xlsx: a rest day on Sundays
DayKm(d) ==
    IF d % 7 = 0 THEN <<0, 0, 0>> ELSE <<5 * FP, 2 * FP, 3 * FP>>

\* the sheets Daily_walk that walks_total.py writes for the days of a set:
\* one row per day, the latest day first
DailySheet(days) ==
    LET asc == SortedSeq(days)
        n == Len(asc)
    IN  [k \in 1..n |->
           [date |-> asc[n + 1 - k],
            Date |-> StrfMDY(asc[n + 1 - k]),
            distance_km |-> DayKm(asc[n + 1 - k])[1],
            distance_workouts_km |-> DayKm(asc[n + 1 - k])[2],
            distance_non_workout_km |-> DayKm(asc[n + 1 - k])[3]]]

DailySheets ==
    { DailySheet(days) :
        days \in { D \in SUBSET WeekDates : Cardinality(D) <= MaxWeekRows } }

NextWeekly ==
    \/ \E elem \in WeekWorkouts : WkReadWorkout(elem)
    \/ WkAggregateWeekly
    \/ WkSaveExcel
    \/ WdNoInput
    \/ \E sheet \in DailySheets : WdReadExcel(sheet)
    \/ WdWeekly
    \/ WdSave

\* a run of one of the two weekly jobs
InitWeekly ==
    /\ export_exists = TRUE
    /\ LwIdle /\ WtIdle /\ WvIdle /\ VxIdle /\ DrIdle
    /\ \/ WkInit /\ WdIdle
       \/ WkIdle /\ WdInit

SpecWeekly == InitWeekly /\ [][NextWeekly]_vars

\* ---------------------------------------------------------------------
\* all_reports_run.py: the driver that runs the six jobs and moves the
\* new spreadsheets of the project root into reports/
\* ---------------------------------------------------------------------

\* the number of times the driver is run, one after the other
MaxRuns == 2

\* SCRIPTS (lines 7-14) by position: 1 extract_vo2max.py,
\* 2 extract_weight_and_vo2.py, 3 walks_by_week.py, 4 walks_total.py,
\* 5 weekly_from_daily.py, 6 health_last_walk.py
SCRIPTS == 1..6

\* the jobs whose output name carries strftime("%Y%m%d_%H%M") of the clock
StampedScripts == {2, 3}

\* the name of the file a job writes: vo2max_history_daily.xlsx,
\* weight_vo2_history_{now}.xlsx, weekly_walk_summary_{now}.xlsx,
\* daily_walk.xlsx, weekly_from_daily_walk.xlsx, full_last_walk.xlsx
OutputName(script, now) ==
    [job |-> script, stamp |-> IF script \in StampedScripts THEN now ELSE 0]

\* {p.resolve() for p in project_root.glob("*.xlsx")}
GlobXlsx(files) == { f.name : f \in files }

\* a directory after a file is written under a name, over the file that had it
WriteFile(files, f) == { g \in files : g.name # f.name } \cup {f}

\* INPUT_FILE of weekly_from_daily.py, the output of walks_total.py
INPUT_FILE == OutputName(4, 0)

\* how a job can end: it writes its file, it ends normally without a file
\* (extract_vo2max.py with no rows, lines 87-89), or it exits with an error
\* (weekly_from_daily.py cannot write without daily_walk.xlsx in the root)
JobOutcomes(script, files) ==
    (IF script = 5 /\ INPUT_FILE \notin GlobXlsx(files) THEN {} ELSE {"wrote"})
    \cup (IF script = 1 THEN {"nothing"} ELSE {})
    \cup {"failed"}

\* a fresh checkout: no spreadsheet in the root, an empty reports/
DrInit ==
    /\ dr_pc = "start" /\ dr_next = 0
    /\ dr_scripts \in {SCRIPTS, SCRIPTS \ {6}, SCRIPTS \ {4}}
    /\ dr_run = 1 /\ dr_now = 1
    /\ root_files = {} /\ reports_files = {}
    /\ before = {} /\ produced = {} /\ dr_started = <<>>

\* main, lines 17-22: reports/ exists, the snapshot of the root is taken
DrBegin ==
    /\ dr_pc = "start"
    /\ before' = GlobXlsx(root_files)
    /\ produced' = {}
    /\ dr_started' = <<>>
    /\ dr_next' = 1
    /\ dr_pc' = "run"
    /\ UNCHANGED <<dr_scripts, dr_run, dr_now, root_files, reports_files>>
    /\ UNCHANGED drOthers

\* lines 26-29: a script that is not in the root is skipped
DrSkip ==
    /\ dr_pc = "run" /\ dr_next \in SCRIPTS
    /\ dr_next \notin dr_scripts
    /\ dr_next' = dr_next + 1
    /\ UNCHANGED <<dr_pc, dr_scripts, dr_run, dr_now, root_files,
                   reports_files, before, produced, dr_started>>
    /\ UNCHANGED drOthers

\* subprocess.run without check=True: the exit status is ignored
RunChecked_NoCheck(outcome) == "run"

\* subprocess.run(..., check=True), line 32: a non-zero exit raises
\* CalledProcessError, which ends main before the next script and the move
RunChecked(outcome) == IF outcome = "failed" THEN "failed" ELSE "run"

\* lines 25-32: the next script is present and is started
DrRunJob(outcome) ==
    /\ dr_pc = "run" /\ dr_next \in SCRIPTS
    /\ dr_next \in dr_scripts
    /\ outcome \in JobOutcomes(dr_next, root_files)
    /\ dr_started' = Append(dr_started, [script |-> dr_next, outcome |-> outcome])
    /\ LET f == [name |-> OutputName(dr_next, dr_now), run |-> dr_run]
       IN  IF outcome = "wrote"
           THEN /\ root_files' = WriteFile(root_files, f)
                /\ produced' = WriteFile(produced, f)
           ELSE UNCHANGED <<root_files, produced>>
    /\ dr_pc' = RunChecked(outcome)
    /\ dr_next' = IF dr_pc' = "run" THEN dr_next + 1 ELSE dr_next
    /\ UNCHANGED <<dr_scripts, dr_run, dr_now, reports_files, before>>
    /\ UNCHANGED drOthers

\* the files of the root whose name is in after - before (lines 35-36)
NewFiles(files, snapshot) == { f \in files : f.name \notin snapshot }

\* lines 35-46: every new file replaces the file of its name in reports/
DrMove ==
    /\ dr_pc = "run" /\ dr_next = 7
    /\ LET new_files == NewFiles(root_files, before)
       IN  /\ reports_files' =
                 { g \in reports_files : g.name \notin GlobXlsx(new_files) }
                 \cup new_files
           /\ root_files' = root_files \ new_files
    /\ dr_pc' = "done"
    /\ UNCHANGED <<dr_next, dr_scripts, dr_run, dr_now, before, produced,
                   dr_started>>
    /\ UNCHANGED drOthers

\* the driver is started again, in the same minute or in a later one
DrAgain ==
    /\ dr_pc \in {"failed", "done"}
    /\ dr_run < MaxRuns
    /\ dr_run' = dr_run + 1
    /\ dr_now' \in {dr_now, dr_now + 1}
    /\ dr_pc' = "start"
    /\ dr_next' = 0
    /\ UNCHANGED <<dr_scripts, root_files, reports_files, before, produced,
                   dr_started>>
    /\ UNCHANGED drOthers

NextDriver ==
    \/ DrBegin
    \/ DrSkip
    \/ \E outcome \in {"wrote", "nothing", "failed"} : DrRunJob(outcome)
    \/ DrMove
    \/ DrAgain

\* runs of the driver, the first one on a fresh checkout
InitDriver ==
    /\ export_exists = TRUE
    /\ LwIdle /\ WtIdle /\ WvIdle /\ VxIdle /\ WkIdle /\ WdIdle
    /\ DrInit

SpecDriver == InitDriver /\ [][NextDriver]_vars

\* ------------------------------------------------------------------------
\* Properties of health_last_walk.py
\* ------------------------------------------------------------------------
Collected == pc \in {"zones", "splits", "write", "done"}
ZonesComputed == pc \in {"splits", "write", "done"}
SplitsReturned == pc \in {"write", "done"}

\* C1: every heart-rate value of a sample lies in exactly one band of ZONES
\* (lo <= v <= hi), so the interval after the sample goes to exactly one zone.
C1_ExactlyOneBand ==
    \A k \in 1..Len(hr_samples) :
        Cardinality({z \in 1..Len(ZONES) : InBand(z, hr_samples[k][2])}) = 1

RECURSIVE C2_ZoneTotal(_)
C2_ZoneTotal(z) ==
    IF z = 0 THEN 0
    ELSE C2_ZoneTotal(z - 1)
         + (zones[ZONES[z][1]][1] * 60 + zones[ZONES[z][1]][2]) * USEC

\* C2: the dwell seconds of the five zones sum to the time between the first
\* and the last heart-rate sample.
C2_DwellSumsToElapsed ==
    ZonesComputed =>
        C2_ZoneTotal(Len(ZONES))
            = hr_samples[Len(hr_samples)][1] - hr_samples[1][1]

RECURSIVE C3_PrefixSum(_)
C3_PrefixSum(k) ==
    IF k = 0 THEN 0 ELSE C3_PrefixSum(k - 1) + dist_samples_raw[k][2]

C3_Max ==
    CHOOSE m \in {dist_samples_raw[k][2] : k \in 1..Len(dist_samples_raw)} :
        \A k \in 1..Len(dist_samples_raw) : dist_samples_raw[k][2] <= m

C3_Tie ==
    Abs(C3_PrefixSum(Len(dist_samples_raw)) - best.distance_km)
        = Abs(C3_Max - best.distance_km)

\* C3: with a non-empty distance sample list and declared total T the encoding
\* is "delta" (incremental) exactly when |sum - T| <= |max - T|, a tie going
\* to incremental; the series returned is the prefix sums in timestamp order
\* when incremental and the values as read when cumulative.
C3_EncodingChoice ==
    (Collected /\ dist_samples_raw # <<>>) =>
        LET n == Len(dist_samples_raw)
            T == best.distance_km
            incremental == Abs(C3_PrefixSum(n) - T) <= Abs(C3_Max - T)
        IN  /\ mode = (IF incremental THEN "delta" ELSE "cumulative")
            /\ Len(dist_samples) = n
            /\ \A k \in 1..n :
                 /\ dist_samples[k][1] = dist_samples_raw[k][1]
                 /\ dist_samples[k][2] = (IF incremental THEN C3_PrefixSum(k)
                                          ELSE dist_samples_raw[k][2])
            /\ \A k \in 1..(n - 1) :
                 dist_samples_raw[k][1] <= dist_samples_raw[k + 1][1]

\* a tie between two different candidates (sum # max) resolved to incremental
C3_Witness ==
    /\ Collected
    /\ Len(dist_samples_raw) >= 2
    /\ C3_Tie
    /\ C3_PrefixSum(Len(dist_samples_raw)) # C3_Max
    /\ mode = "delta"
    /\ dist_samples # dist_samples_raw

\* C4: the distance series returned by collect_hr_and_dist is non-decreasing
\* in timestamp order, in both encodings (stated for the pairs of samples
\* with different timestamps, whose order does not depend on the document).
C4_SeriesMonotone ==
    Collected =>
        \A k \in 1..(Len(dist_samples) - 1) :
            dist_samples[k][1] < dist_samples[k + 1][1] =>
                dist_samples[k][2] <= dist_samples[k + 1][2]

\* the targets as the claim C5 states them
C5_Targets(total) ==
    LET nfull == (total + EPS) \div FP
    IN  [k \in 1..(nfull + (IF total - nfull * FP > EPS THEN 1 ELSE 0)) |->
            IF k <= nfull THEN k * FP ELSE total]

\* C5: compute_splits returns one split for every target distance (the whole
\* kilometres up to floor(total + 0.05), then the total itself when the tail
\* exceeds 0.05); stated for the runs whose distance series covers the
\* declared total up to the 50 m tolerance.
C5_OneSplitPerTarget ==
    (/\ SplitsReturned
     /\ dist_samples # <<>>
     /\ dist_samples[Len(dist_samples)][2] >= best.distance_km - EPS
     /\ dist_samples[Len(dist_samples)][2] <= best.distance_km) =>
        /\ bounds = C5_Targets(best.distance_km)
        /\ Len(splits) = Len(bounds)

\* C6: arrival times are strictly increasing with the split index and the
\* first arrival is after the workout start.
C6_ArrivalsStrictlyIncreasing ==
    \A k \in 1..Len(splits) :
        splits[k].t_end > (IF k = 1 THEN best.start ELSE splits[k - 1].t_end)

\* C7: the arrival time of split k is interpolated in the bracket made of the
\* first sample with distance >= target k and the sample before it (or the
\* workout start with distance 0), and is t_cur when the bracket is
\* degenerate.
C7_Bracket ==
    \A k \in 1..Len(splits) :
        LET target == bounds[k]
            reach == {j \in 1..Len(dist_samples) : dist_samples[j][2] >= target}
            j == CHOOSE j \in reach : \A m \in reach : j <= m
            t_cur == dist_samples[j][1]
            d_cur == dist_samples[j][2]
            t_prev == IF j = 1 THEN best.start ELSE dist_samples[j - 1][1]
            d_prev == IF j = 1 THEN 0 ELSE dist_samples[j - 1][2]
        IN  /\ reach # {}
            /\ splits[k].KM = k
            /\ splits[k].t_end =
                 (IF d_cur = d_prev THEN t_cur
                  ELSE t_prev + MulDivRound(t_cur - t_prev, target - d_prev,
                                            d_cur - d_prev))

\* two consecutive targets interpolated in the same bracket, which is not the
\* first one of the series
C7_Witness ==
    /\ Len(splits) >= 2
    /\ idx >= 1
    /\ dist_samples[idx][2] < bounds[Len(splits) - 1]
    /\ dist_samples[idx + 1][2] >= bounds[Len(splits)]
    /\ splits[Len(splits)].t_end > splits[Len(splits) - 1].t_end

C8_Window(k) ==
    <<IF k = 1 THEN best.start ELSE splits[k - 1].t_end, splits[k].t_end>>

C8_InWindow(k) ==
    {j \in 1..Len(hr_samples) :
        /\ C8_Window(k)[1] <= hr_samples[j][1]
        /\ hr_samples[j][1] <= C8_Window(k)[2]}

RECURSIVE C8_SumOver(_)
C8_SumOver(js) ==
    IF js = {} THEN 0
    ELSE LET j == CHOOSE x \in js : TRUE
         IN  hr_samples[j][2] + C8_SumOver(js \ {j})

\* C8: split k spans [arrival of split k-1 (workout start for k = 1), arrival
\* of split k]; its reported heart rate is the mean, rounded to whole beats,
\* of exactly the samples whose timestamp lies in that closed window, and 0
\* when the window holds no sample; its pace is the whole seconds of the span.
C8_SplitHeartRate ==
    \A k \in 1..Len(splits) :
        LET inside == C8_InWindow(k)
            span == C8_Window(k)[2] - C8_Window(k)[1]
        IN  /\ splits[k].HeartRate =
                 (IF inside = {} THEN 0
                  ELSE MulDivRound(C8_SumOver(inside), 1,
                                   Cardinality(inside) * HRFP))
            /\ span >= 0
            /\ splits[k].Pace[1] * 60 + splits[k].Pace[2] = span \div USEC

\* a split without samples that reports 0 next to a split whose window ends
\* exactly on a sample
C8_Witness ==
    /\ \E k \in 1..Len(splits) : C8_InWindow(k) = {} /\ splits[k].HeartRate = 0
    /\ \E k \in 1..Len(splits) :
         /\ splits[k].HeartRate > 0
         /\ \E j \in C8_InWindow(k) : hr_samples[j][1] = splits[k].t_end

\* the conversion to kilometres as the claim C9 states it
C9_ToKm(v, unit) ==
    IF unit = "m" THEN v \div 1000
    ELSE IF unit = "mi" THEN MulDivRound(v, 160934, 100000)
    ELSE v

\* C9: the workout total of the last-walk report is the distance statistic
\* converted to kilometres: m -> /1000, mi -> *1.60934, km or none -> itself.
C9_LastWalkTotalKm ==
    (pc \notin {"find", "error"} /\ best.distance.some) =>
        best.distance_km = C9_ToKm(best.distance.v, best.distance_unit)

\* ------------------------------------------------------------------------
\* Properties of walks_total.py
\* ------------------------------------------------------------------------
\* (a) the type tag is one of the recognized identifiers
C10_TypeOk(e) ==
    IF e.tag = "Record" THEN e.type \in DISTANCE_TYPES
    ELSE e.workoutActivityType \in WORKOUT_TYPES

\* (b) the date read from the first 19 characters of startDate is on or after
\* the cutoff
C10_DateOk(e) == e.startDate.k = "ok" /\ e.startDate.date >= CUTOFF_DATE

\* (c) sourceName + " " + device, non-breaking spaces made spaces, contains
\* "Watch"
C10_WatchOk(e) ==
    LET txt == (IF e.sourceName = NoneStr THEN <<>> ELSE e.sourceName)
               \o <<" ">> \o (IF e.device = NoneStr THEN <<>> ELSE e.device)
        ch(k) == IF txt[k] = "nbsp" THEN " " ELSE txt[k]
    IN  \E p \in 0..(Len(txt) - 5) :
            /\ ch(p + 1) = "W" /\ ch(p + 2) = "a" /\ ch(p + 3) = "t"
            /\ ch(p + 4) = "c" /\ ch(p + 5) = "h"

C10_AllThree(e) == C10_TypeOk(e) /\ C10_DateOk(e) /\ C10_WatchOk(e)

\* a step of one of the two scans: the element wt_elem' has been read
C10_ReadStep == wt_pc \in {"records", "workouts"} /\ wt_pc' = wt_pc

C10_RowAdded ==
    \/ /\ wt_pc = "records"
       /\ Len(rows_daily') = Len(rows_daily) + 1
       /\ rows_daily'[Len(rows_daily')][1] = wt_elem'.startDate.date
    \/ /\ wt_pc = "workouts"
       /\ Len(rows_workouts') = Len(rows_workouts) + 1
       /\ rows_workouts'[Len(rows_workouts')][1] = wt_elem'.startDate.date

C10_NothingAdded == rows_daily' = rows_daily /\ rows_workouts' = rows_workouts

\* C10 as stated: an element of either scan adds a row if and only if the
\* three predicates (type, date on or after the cutoff, Watch source) hold.
C10_ThreePredicates ==
    [][C10_ReadStep =>
         IF C10_AllThree(wt_elem') THEN C10_RowAdded ELSE C10_NothingAdded]_vars

\* C10 as amended: in parse_workouts a Workout adds a row if and only if the
\* three predicates hold; in parse_daily_walking a Record adds a row if and
\* only if the three predicates hold and its value attribute is a non-empty
\* numeral; the cutoff day itself is kept.
C10_ThreePredicatesAndValue ==
    [][C10_ReadStep =>
         IF /\ C10_AllThree(wt_elem')
            /\ (wt_pc = "records" => wt_elem'.value.k = "num")
         THEN C10_RowAdded ELSE C10_NothingAdded]_vars

\* a Record of the cutoff day, whose Watch source is in the device attribute
\* only, has been read and its row added
C10_Witness ==
    /\ wt_pc = "records"
    /\ wt_elem.tag = "Record"
    /\ C10_AllThree(wt_elem)
    /\ wt_elem.startDate.date = CUTOFF_DATE
    /\ wt_elem.sourceName = NoneStr
    /\ rows_daily # <<>>
    /\ rows_daily[Len(rows_daily)][1] = CUTOFF_DATE

\* ------------------------------------------------------------------------
\* Properties of the scans of health_last_walk.py (continued)
\* ------------------------------------------------------------------------
\* a step of the loop of collect_hr_and_dist
LwReadStep == pc = "collect" /\ lw_elem' # NoRecord

\* the element has a value that is no numeral, or lacks one of value,
\* startDate, endDate
C11_Malformed(e) ==
    e.value.k # "num" \/ e.startDate.k # "ok" \/ e.endDate.k # "ok"

\* C11: an event with a malformed numeric value or a missing required
\* attribute is skipped and never aborts the run: the scan goes on with the
\* next event and what it has collected is what it had collected before
\* that event
C11_MalformedEventSkipped ==
    [][LwReadStep /\ C11_Malformed(lw_elem')
         => /\ pc' = "collect"
            /\ err' = ""
            /\ UNCHANGED <<hr_samples, dist_samples_raw>>]_vars

\* the end of the loop of collect_hr_and_dist: the scan has met every event
LwFinishStep == pc = "collect" /\ pc' # "collect" /\ lw_elem' = NoRecord

\* a heart-rate sample that passes the source filter and the time-window
\* filter
C12_HrRemains(e) ==
    /\ e.type = "HKQuantityTypeIdentifierHeartRate"
    /\ is_watch_source(e)
    /\ e.startDate.k = "ok" /\ e.endDate.k = "ok"
    /\ ~(parse_apple_datetime(e.endDate) <= best.start)
    /\ ~(parse_apple_datetime(e.startDate) >= best.end)

\* C12: the heart-rate samples collect_hr_and_dist holds are the ones that
\* passed the source and time-window filters; at the end of the scan it
\* fails with the no-heart-rate error if and only if it holds none, whether
\* or not it holds distance samples, and with a heart-rate sample and no
\* distance sample it succeeds with an empty distance series
C12_NoHeartRateIffNoneRemains ==
    [][/\ LwReadStep /\ pc' = "collect"
          => (Len(hr_samples') = Len(hr_samples) + 1 <=> C12_HrRemains(lw_elem'))
       /\ LwReadStep /\ pc' = "collect" /\ ~C12_HrRemains(lw_elem')
          => hr_samples' = hr_samples
       /\ LwFinishStep
          => /\ (pc' = "error" /\ err' = "NoHeartRate") <=> hr_samples = <<>>
             /\ pc' = "error" \/ pc' = "zones"
             /\ hr_samples # <<>> /\ dist_samples_raw = <<>>
                  => pc' = "zones" /\ err' = "" /\ dist_samples' = <<>>]_vars

\* the scan ended with the no-heart-rate error while holding distance samples
C12_Witness ==
    /\ pc = "error" /\ err = "NoHeartRate"
    /\ hr_samples = <<>> /\ dist_samples_raw # <<>>

\* the positions of the Walking workouts of a document
C13_Walking(doc) ==
    { k \in 1..Len(doc) : doc[k].workoutActivityType = "HKWorkoutActivityTypeWalking" }

\* the Walking workout with the greatest start, the first one on a tie
C13_Latest(doc) ==
    CHOOSE k \in C13_Walking(doc) :
        \A j \in C13_Walking(doc) :
            \/ parse_apple_datetime(doc[k].startDate)
                  > parse_apple_datetime(doc[j].startDate)
            \/ /\ parse_apple_datetime(doc[k].startDate)
                    = parse_apple_datetime(doc[j].startDate)
               /\ k <= j

\* got is the sum of the statistic of that type of workout w, or dflt when
\* w has no such statistic
C13_StatIs(got, w, type, dflt) ==
    LET cs == { k \in 1..Len(w.children) :
                  w.children[k].tag = "WorkoutStatistics"
                  /\ w.children[k].type = type }
    IN  IF cs = {} THEN got = dflt
        ELSE \E k \in cs : got = Float(w.children[k].sum)

\* got is the elevation of workout w in metres, none when w has no entry
C13_ElevationIs(got, w) ==
    LET cs == { k \in 1..Len(w.children) :
                  w.children[k].tag = "MetadataEntry"
                  /\ w.children[k].key = "HKElevationAscended" }
    IN  IF cs = {} THEN got = NoneF
        ELSE \E k \in cs : got = Some(Float(w.children[k].value) \div 100)

\* C13: find_last_walking_workout fails with the no-matching-workout error
\* exactly when the document holds no Walking workout; when it returns, the
\* document holds one and the start, end, duration, energy, distance and
\* elevation returned are those of the Walking workout with the greatest
\* start, the first one met on a tie
C13_LastWalkingWorkout ==
    [][pc = "find" /\ (pc' = "collect" \/ err' = "NoWalkingWorkout")
         => /\ err' = "NoWalkingWorkout"
                 <=> pc' = "error" /\ C13_Walking(lw_workouts) = {}
            /\ pc' = "collect"
                 <=> C13_Walking(lw_workouts) # {}
            /\ pc' = "collect" =>
                 LET w == lw_workouts[C13_Latest(lw_workouts)]
                 IN  /\ best'.start = parse_apple_datetime(w.startDate)
                     /\ best'.end = parse_apple_datetime(w.endDate)
                     /\ best'.duration_min
                          = IF w.duration.k = "none" THEN 0 ELSE Float(w.duration)
                     /\ best'.active_kcal.some
                     /\ C13_StatIs(best'.active_kcal.v, w,
                            "HKQuantityTypeIdentifierActiveEnergyBurned", 0)
                     /\ IF best'.distance.some
                        THEN C13_StatIs(best'.distance.v, w,
                               "HKQuantityTypeIdentifierDistanceWalkingRunning", -1)
                        ELSE C13_StatIs(-1, w,
                               "HKQuantityTypeIdentifierDistanceWalkingRunning", -1)
                     /\ C13_ElevationIs(best'.elevation_m, w)]_vars

\* the scan has met two Walking workouts with the same start and different
\* figures, and holds the first
C13_Witness ==
    /\ pc = "find" /\ Len(lw_workouts) = 2
    /\ C13_Walking(lw_workouts) = {1, 2}
    /\ lw_workouts[1].startDate = lw_workouts[2].startDate
    /\ lw_workouts[1].duration # lw_workouts[2].duration
    /\ lw_workouts[1].duration.k = "num"
    /\ lw_workouts[1].startDate.k = "ok"
    /\ best.set /\ best.duration_min = Float(lw_workouts[1].duration)
    /\ best.end = parse_apple_datetime(lw_workouts[1].endDate)

\* the closed interval [startDate, endDate] of the element meets the
\* half-open window [start, end) of the workout
C19_Overlaps(e) ==
    /\ parse_apple_datetime(e.startDate) < best.end
    /\ parse_apple_datetime(e.endDate) >= best.start

\* a well-formed heart-rate or distance sample of the watch
C19_WatchSample(e) ==
    /\ is_watch_source(e)
    /\ e.type \in DistRecordTypes \cup {"HKQuantityTypeIdentifierHeartRate"}
    /\ e.startDate.k = "ok" /\ e.endDate.k = "ok" /\ e.value.k = "num"
    /\ parse_apple_datetime(e.startDate) <= parse_apple_datetime(e.endDate)

\* C19: collect_hr_and_dist discards a watch sample if and only if its
\* interval [startDate, endDate] does not overlap the window [start, end):
\* an instantaneous sample at t = start is kept, one at t = end is dropped
C19_DiscardIffNoOverlap ==
    [][LwReadStep /\ C19_WatchSample(lw_elem')
         => (UNCHANGED <<hr_samples, dist_samples_raw>>
                <=> ~C19_Overlaps(lw_elem'))]_vars

ObsOn(rows, d) == { k \in 1..Len(rows) : rows[k][1] = d }

\* the sum of the values at a set of positions
RECURSIVE SumAt(_, _)
SumAt(rows, ks) ==
    IF ks = {} THEN 0
    ELSE LET k == CHOOSE x \in ks : TRUE
         IN  rows[k][2] + SumAt(rows, ks \ {k})

\* v is the greatest value observed on date d
IsMaxOn(v, rows, d) ==
    /\ \E k \in ObsOn(rows, d) : rows[k][2] = v
    /\ \A k \in ObsOn(rows, d) : rows[k][2] <= v

\* v is the mean of the values observed on date d, to the nearest unit
IsMeanOn(v, rows, d) ==
    LET n == Cardinality(ObsOn(rows, d))
    IN  n > 0 /\ 2 * Abs(v * n - SumAt(rows, ObsOn(rows, d))) <= n

\* the frame of aggregate_daily is at hand, add_metrics has not run yet
Aggregated == wv_pc = "metrics"

\* C15: aggregate_daily is an outer join on date of the daily weight means
\* and the daily VO2max maxima: one row for every date of either series,
\* a date of the weight series alone has a null vo2max and the mean of its
\* weights, a date of the VO2max series alone a null weight and its maximum
C15_OuterJoin ==
    Aggregated =>
        /\ { wv_daily[k].date : k \in 1..Len(wv_daily) }
              = KeysOf(weight_rows) \cup KeysOf(vo2_rows)
        /\ Len(wv_daily) = Cardinality(KeysOf(weight_rows) \cup KeysOf(vo2_rows))
        /\ \A k \in 1..Len(wv_daily) :
              LET r == wv_daily[k]
              IN  /\ r.weight_kg.some <=> r.date \in KeysOf(weight_rows)
                  /\ r.vo2max.some <=> r.date \in KeysOf(vo2_rows)
                  /\ r.weight_kg.some => IsMeanOn(r.weight_kg.v, weight_rows, r.date)
                  /\ r.vo2max.some => IsMaxOn(r.vo2max.v, vo2_rows, r.date)

\* a date with two different weights and no VO2max, another date with a
\* VO2max and no weight
C15_Witness ==
    /\ Aggregated /\ Len(wv_daily) = 2
    /\ \E k \in 1..2 :
          /\ ~wv_daily[k].vo2max.some
          /\ \E a, b \in ObsOn(weight_rows, wv_daily[k].date) :
                 weight_rows[a][2] # weight_rows[b][2]
    /\ \E k \in 1..2 : ~wv_daily[k].weight_kg.some /\ wv_daily[k].vo2max.some

\* rows <<date, value>> hold each date at most once
OncePerDate(df) ==
    \A a, b \in 1..Len(df) : df[a][1] = df[b][1] => a = b

\* C16: in every daily aggregate (VO2max per day, weight and VO2max per day,
\* walking distance per day, workout distance per day) each date appears at
\* most once and carries the reduction over all retained observations of
\* that date: max for VO2max, mean for weight, sum for distance
C16_DailyReduction ==
    /\ vx_pc \in {"save", "done"} =>
          /\ OncePerDate(vx_daily)
          /\ { vx_daily[k][1] : k \in 1..Len(vx_daily) } = KeysOf(vx_rows)
          /\ \A k \in 1..Len(vx_daily) :
                IsMaxOn(vx_daily[k][2], vx_rows, vx_daily[k][1])
    /\ Aggregated =>
          /\ \A a, b \in 1..Len(wv_daily) :
                wv_daily[a].date = wv_daily[b].date => a = b
          /\ \A k \in 1..Len(wv_daily) :
                /\ wv_daily[k].vo2max.some
                     => IsMaxOn(wv_daily[k].vo2max.v, vo2_rows, wv_daily[k].date)
                /\ wv_daily[k].weight_kg.some
                     => IsMeanOn(wv_daily[k].weight_kg.v, weight_rows,
                                 wv_daily[k].date)
    /\ wt_pc \in {"workouts", "table", "save", "done"} =>
          /\ OncePerDate(df_daily_dist)
          /\ { df_daily_dist[k][1] : k \in 1..Len(df_daily_dist) }
                = KeysOf(rows_daily)
          /\ \A k \in 1..Len(df_daily_dist) :
                df_daily_dist[k][2]
                  = SumAt(rows_daily, ObsOn(rows_daily, df_daily_dist[k][1]))
    /\ wt_pc \in {"table", "save", "done"} =>
          /\ OncePerDate(df_workouts)
          /\ { df_workouts[k][1] : k \in 1..Len(df_workouts) }
                = KeysOf(rows_workouts)
          /\ \A k \in 1..Len(df_workouts) :
                df_workouts[k][2]
                  = SumAt(rows_workouts, ObsOn(rows_workouts, df_workouts[k][1]))

\* the VO2max job has met a greater value before a smaller one on one date
C16_Witness ==
    /\ vx_pc = "save" /\ Len(vx_daily) = 1
    /\ Len(vx_rows) >= 2
    /\ vx_rows[1][1] = vx_rows[2][1] /\ vx_rows[1][2] > vx_rows[2][2]
    /\ vx_daily[1][2] = vx_rows[1][2]

\* ------------------------------------------------------------------------
\* Properties of the weekly aggregates
\* ------------------------------------------------------------------------
\* two dates lie in the same Monday-to-Sunday span (ordinal 1 is a Monday)
SameSpan(d1, d2) == (d1 - 1) \div 7 = (d2 - 1) \div 7

\* the sum of f over a set of positions
RECURSIVE SumFn(_, _)
SumFn(f, ks) ==
    IF ks = {} THEN 0
    ELSE LET k == CHOOSE x \in ks : TRUE
         IN  f[k] + SumFn(f, ks \ {k})

\* the weekly frame of walks_by_week.py, of weekly_from_daily.py is at hand
WkAggregated == wk_pc \in {"format", "done"}
WdAggregated == wd_pc \in {"save", "done"}

\* the rows keyed by week share a key exactly when they share a span, and
\* every key has its one weekly row
C17_KeysAreSpans(rows, weekly, aggregated) ==
    /\ \A a, b \in 1..Len(rows) :
          (rows[a].year = rows[b].year /\ rows[a].week = rows[b].week)
            <=> SameSpan(rows[a].date, rows[b].date)
    /\ \A a \in 1..Len(rows) :
          /\ rows[a].date \in 739525..739529
                => rows[a].year = 2025 /\ rows[a].week = 40
          /\ rows[a].date = 739530 => rows[a].year = 2025 /\ rows[a].week = 41
    /\ aggregated =>
          /\ \A a, b \in 1..Len(weekly) :
                (weekly[a].year = weekly[b].year /\ weekly[a].week = weekly[b].week)
                  => a = b
          /\ \A a \in 1..Len(rows) : \E w \in 1..Len(weekly) :
                weekly[w].year = rows[a].year /\ weekly[w].week = rows[a].week
          /\ \A w \in 1..Len(weekly) : \E a \in 1..Len(rows) :
                weekly[w].year = rows[a].year /\ weekly[w].week = rows[a].week

\* C17: weekly grouping gives every row one (ISO year, ISO week) key with
\* Monday as the first day: two rows share a weekly row if and only if
\* their dates lie in the same Monday-to-Sunday span, also across the turn
\* of a calendar year; 2025-10-01 .. 2025-10-05 are 2025-W40, 2025-10-06 is
\* 2025-W41
C17_WeekIsMondayToSunday ==
    /\ C17_KeysAreSpans(wk_rows, wk_weekly, WkAggregated)
    /\ WkAggregated =>
          \A w \in 1..Len(wk_weekly) :
              wk_weekly[w].workouts
                = Cardinality({ a \in 1..Len(wk_rows) :
                                  SameSpan(wk_rows[a].date, wk_weekly[w].week_start) })
    /\ C17_KeysAreSpans(wd_df, wd_weekly, WdAggregated)
    /\ WdAggregated =>
          \A w \in 1..Len(wd_weekly) :
              wd_weekly[w].days_with_data
                = Cardinality({ a \in 1..Len(wd_df) :
                                  SameSpan(wd_df[a].date, wd_weekly[w].first_date) })

\* one weekly row holds a walk of Monday 2025-12-29 and one of Thursday
\* 2026-01-01; the walk of Sunday 2025-12-28 has a row of its own
C17_Witness ==
    /\ WkAggregated /\ Len(wk_weekly) = 2 /\ Len(wk_rows) = 3
    /\ wk_weekly[1].workouts = 2
    /\ wk_weekly[1].week_start = 739614 /\ wk_weekly[1].week_end = 739617
    /\ wk_weekly[2].week_start = 739613

\* the rows of wk_rows that belong to a weekly row
C18_WeekOf(w) ==
    { a \in 1..Len(wk_rows) : wk_rows[a].year = w.year /\ wk_rows[a].week = w.week }

\* C18: in every weekly row of aggregate_weekly the distance and the
\* duration are the sums over the workouts of the week, the bounds are the
\* earliest and the latest workout date of the week, and the average pace
\* is total duration / total distance when the total distance is > 0 and
\* null when it is 0
C18_WeeklyTotalsAndPace ==
    WkAggregated =>
        \A k \in 1..Len(wk_weekly) :
            LET w == wk_weekly[k]
                g == C18_WeekOf(w)
            IN  /\ g # {}
                /\ w.workouts = Cardinality(g)
                /\ w.distance_km
                     = SumFn([a \in 1..Len(wk_rows) |-> wk_rows[a].distance_km], g)
                /\ w.duration_min
                     = SumFn([a \in 1..Len(wk_rows) |-> wk_rows[a].duration_min], g)
                /\ \E a \in g : wk_rows[a].date = w.week_start
                /\ \E a \in g : wk_rows[a].date = w.week_end
                /\ \A a \in g : w.week_start <= wk_rows[a].date
                                 /\ wk_rows[a].date <= w.week_end
                /\ w.distance_km > 0 =>
                      /\ w.avg_pace_min_per_km.some
                      /\ w.avg_pace_min_per_km.v
                           = MulDivRound(w.duration_min, FP, w.distance_km)
                /\ w.distance_km = 0 => ~w.avg_pace_min_per_km.some
                /\ w.distance_km >= 0

\* a week of two walks without distance and with a duration, and a week
\* with a distance
C18_Witness ==
    /\ WkAggregated /\ Len(wk_weekly) = 2
    /\ \E k \in 1..2 :
          /\ wk_weekly[k].workouts = 2 /\ wk_weekly[k].distance_km = 0
          /\ wk_weekly[k].duration_min > 0
          /\ ~wk_weekly[k].avg_pace_min_per_km.some
    /\ \E k \in 1..2 :
          /\ wk_weekly[k].distance_km > 0
          /\ wk_weekly[k].avg_pace_min_per_km.some

\* a run of the driver in which every job has succeeded has ended
DrAllSucceeded == dr_pc = "done"

\* C20: after a driver run in which every job succeeds, every file a job of
\* that run produced is in reports/ and no longer in the project root,
\* whatever the root held before the run
C20_ProducedFilesAreInReports ==
    DrAllSucceeded =>
        \A f \in produced : f \in reports_files /\ f \notin root_files

\* some sample of the distance series is at or beyond the target
C21_Reached(target) ==
    \E j \in 1..Len(dist_samples) : dist_samples[j][2] >= target

\* the splits are the first N targets, numbered 1..N, each reached by the
\* series
C21_Prefix ==
    /\ Len(splits) <= Len(bounds)
    /\ \A k \in 1..Len(splits) :
          splits[k].KM = k /\ C21_Reached(bounds[k])

\* the first target without a split is one no sample reaches
C21_StopsAtFirstUnreached ==
    (SplitsReturned /\ Len(splits) < Len(bounds)) =>
        ~C21_Reached(bounds[Len(splits) + 1])

\* C21 as stated: the splits of compute_splits are a prefix of the targets,
\* numbered 1..N; the scan stops at the first target no sample reaches, and
\* N is smaller than the number of targets whenever the series ends below
\* the declared total.
C21_PrefixShortWhenSeriesEndsBelow ==
    /\ C21_Prefix
    /\ C21_StopsAtFirstUnreached
    /\ (/\ SplitsReturned
        /\ dist_samples # <<>>
        /\ dist_samples[Len(dist_samples)][2] < best.distance_km) =>
          Len(splits) < Len(bounds)

\* C21 as amended: the splits of compute_splits are a prefix of the targets,
\* numbered 1..N; the scan stops at the first target no sample reaches, and
\* N is smaller than the number of targets exactly when every sample
\* distance is below the last target.
C21_PrefixShortIffLastTargetUnreached ==
    /\ C21_Prefix
    /\ C21_StopsAtFirstUnreached
    /\ (SplitsReturned /\ dist_samples # <<>>) =>
          (Len(splits) < Len(bounds) <=>
              (bounds # <<>> /\ ~C21_Reached(bounds[Len(bounds)])))

\* compute_splits has returned one split and left a later target without one
C21_Witness ==
    /\ SplitsReturned
    /\ Len(splits) >= 1
    /\ Len(splits) < Len(bounds)

\* a step of compute_splits that interpolates an arrival and appends a split
C22_Interpolates == pc = "splits" /\ Len(splits') = Len(splits) + 1

\* C22: whenever compute_splits interpolates, the bracket satisfies
\* d_prev < target <= d_cur, so the degenerate branch d_cur = d_prev is not
\* taken, the fraction (target - d_prev) / (d_cur - d_prev) is in (0, 1], and
\* the arrival time lies between t_prev and t_cur.
C22_BracketIsProper ==
    [][C22_Interpolates =>
          LET target == bounds[Len(splits')]
              d_prev == prev_dist'
              t_prev == prev_t'
              t_cur == dist_samples[idx' + 1][1]
              d_cur == dist_samples[idx' + 1][2]
              t_target == splits'[Len(splits')].t_end
          IN  /\ d_prev < target /\ target <= d_cur
              /\ d_cur # d_prev
              /\ 0 < target - d_prev /\ target - d_prev <= d_cur - d_prev
              /\ t_prev <= t_target /\ t_target <= t_cur]_vars

\* an arrival strictly inside a bracket of a series that is not monotone
C22_Witness ==
    /\ pc = "splits"
    /\ Len(splits) >= 1
    /\ idx < Len(dist_samples)
    /\ \E j \in 1..(Len(dist_samples) - 1) :
          dist_samples[j][2] > dist_samples[j + 1][2]
    /\ prev_dist < bounds[Len(splits)]
    /\ bounds[Len(splits)] < dist_samples[idx + 1][2]
    /\ prev_t < splits[Len(splits)].t_end
    /\ splits[Len(splits)].t_end < dist_samples[idx + 1][1]

\* the scripts this run has started
C23_Started == { dr_started[k].script : k \in 1..Len(dr_started) }

\* a job of this run has exited with an error
C23_Failed == \E k \in 1..Len(dr_started) : dr_started[k].outcome = "failed"

\* the scripts started so far are the present ones in the order of SCRIPTS,
\* all of them once the run is done, and none after one that failed
C23_InListedOrder ==
    /\ C23_Started \subseteq dr_scripts
    /\ \A k \in 1..(Len(dr_started) - 1) :
          /\ dr_started[k].script < dr_started[k + 1].script
          /\ dr_started[k].outcome # "failed"
          /\ \A script \in dr_scripts :
                ~(/\ dr_started[k].script < script
                  /\ script < dr_started[k + 1].script)
    /\ dr_pc = "done" => C23_Started = dr_scripts /\ ~C23_Failed

\* after a job has exited with an error the files the jobs of the run wrote
\* are in the root and none of them is in reports/
C23_FailedRunLeavesFiles ==
    C23_Failed => \A f \in produced : f \in root_files /\ f \notin reports_files

\* weekly_from_daily.py is started after walks_total.py
C23_DailyWalkIsRead ==
    (5 \in C23_Started /\ 4 \in dr_scripts) =>
        \E k, l \in 1..Len(dr_started) :
            k < l /\ dr_started[k].script = 4 /\ dr_started[l].script = 5

\* what a step of the driver may do: after a failure no script is started
\* and no file is written or moved, a file leaves the root or enters
\* reports/ only when every script has been passed, and weekly_from_daily.py
\* is started with the daily_walk.xlsx that walks_total.py wrote in this run
\* in the root
C23_Step ==
    /\ C23_Failed =>
          /\ dr_started' = dr_started \/ dr_started' = <<>>
          /\ root_files' = root_files
          /\ reports_files' = reports_files
    /\ GlobXlsx(root_files) \ GlobXlsx(root_files') # {} => dr_next = 7
    /\ reports_files' # reports_files => dr_next = 7
    /\ (/\ Len(dr_started') = Len(dr_started) + 1
        /\ dr_started'[Len(dr_started')].script = 5
        /\ 4 \in dr_scripts) =>
          [name |-> INPUT_FILE, run |-> dr_run] \in root_files

\* C23: the driver runs the jobs strictly in the listed order and stops at
\* the first job that exits with an error: no later job is started, no file
\* is moved into reports/, and the files of the earlier jobs stay in the
\* root; a missing script is skipped; weekly_from_daily.py is started only
\* after walks_total.py, and daily_walk.xlsx is not moved away before it.
C23_OrderedAndStopsAtFailure ==
    /\ [](C23_InListedOrder /\ C23_FailedRunLeavesFiles /\ C23_DailyWalkIsRead)
    /\ [][C23_Step]_vars

\* a run that skipped a missing script, and a later run that stopped at a
\* failure of weekly_from_daily.py after three jobs had written their files
C23_Witness ==
    /\ dr_pc = "failed"
    /\ dr_scripts = SCRIPTS \ {6}
    /\ dr_run = 2
    /\ Len(dr_started) = 5
    /\ dr_started[5] = [script |-> 5, outcome |-> "failed"]
    /\ Cardinality(produced) >= 3
    /\ \E f \in reports_files : f.run = 1

\* ------------------------------------------------------------------------
\* Properties of the daily walk table of walks_total.py
\* ------------------------------------------------------------------------
\* build_daily_walk_table has returned
C24_TableBuilt == wt_pc \in {"save", "done"}

\* the kilometres of the rows <<date, km>> of one date
C24_KmOn(rows, d) == SumAt(rows, ObsOn(rows, d))

\* max(0, total - workout)
C24_NonWorkout(total, workout) ==
    IF total - workout < 0 THEN 0 ELSE total - workout

\* the rows of the table are the dates of the daily distance series, each
\* once; a workout date without a distance record has no row, and a date
\* without a workout has workout distance 0
C24_RowsAreDailyDates ==
    /\ { daily_table[k].date : k \in 1..Len(daily_table) } =
          { rows_daily[k][1] : k \in 1..Len(rows_daily) }
    /\ \A k, l \in 1..Len(daily_table) :
          daily_table[k].date = daily_table[l].date => k = l
    /\ \A k \in 1..Len(daily_table) :
          ObsOn(rows_workouts, daily_table[k].date) = {} =>
              daily_table[k].distance_workouts_km = 0

\* the non-workout distance is not negative and not above the total
C24_NonWorkoutInRange ==
    \A k \in 1..Len(daily_table) :
        /\ daily_table[k].distance_non_workout_km >= 0
        /\ daily_table[k].distance_non_workout_km <= daily_table[k].distance_km

\* C24 as stated: the rows of the daily walk table are the dates of the
\* daily distance series, each once; a date with no workout has workout
\* distance 0; in every row the non-workout distance equals
\* max(0, total distance - workout distance), so it is never negative and
\* never above the total.
C24_NonWorkoutIsDifference ==
    C24_TableBuilt =>
        /\ C24_RowsAreDailyDates
        /\ C24_NonWorkoutInRange
        /\ \A k \in 1..Len(daily_table) :
              daily_table[k].distance_non_workout_km =
                  C24_NonWorkout(daily_table[k].distance_km,
                                 daily_table[k].distance_workouts_km)

\* C24 as amended: the rows of the daily walk table are the dates of the
\* daily distance series, each once; a date with no workout has workout
\* distance 0; in every row the three distances are the day's total, the
\* day's workout distance and max(0, total - workout) of the unrounded sums,
\* each rounded to two decimals, so the non-workout distance is never
\* negative and never above the total.
C24_NonWorkoutIsRoundedDifference ==
    C24_TableBuilt =>
        /\ C24_RowsAreDailyDates
        /\ C24_NonWorkoutInRange
        /\ \A k \in 1..Len(daily_table) :
              LET d == daily_table[k].date
                  total == C24_KmOn(rows_daily, d)
                  workout == C24_KmOn(rows_workouts, d)
              IN  /\ daily_table[k].distance_km = Round2(total)
                  /\ daily_table[k].distance_workouts_km = Round2(workout)
                  /\ daily_table[k].distance_non_workout_km =
                        Round2(C24_NonWorkout(total, workout))

\* a table with a day whose workouts exceed its total distance and a workout
\* date that has no distance record
C24_Witness ==
    /\ C24_TableBuilt
    /\ \E k \in 1..Len(daily_table) :
          /\ daily_table[k].distance_workouts_km > daily_table[k].distance_km
          /\ daily_table[k].distance_non_workout_km = 0
    /\ \E k \in 1..Len(rows_workouts) :
          ObsOn(rows_daily, rows_workouts[k][1]) = {}

====
